---- MODULE Spec2Model ----
(***************************************************************************)
(* Model of the secret resolution pass of cypress-1password                *)
(* (src/src/OpResolver.ts with the URI parser and constants of             *)
(* src/unnamed/part_002).                                                  *)
(*                                                                         *)
(* Strings are sequences of tokens.  A token is one character ("A", "/",   *)
(* " ", ...) or one of the fixed multi-character tokens "op://", "{{",     *)
(* "}}", "target_url=", "https://".  All string operations of the code     *)
(* (trim, split, toLowerCase, startsWith, replace, the placeholder regex)  *)
(* are computed on these sequences.                                        *)
(***************************************************************************)
EXTENDS Integers, Sequences, FiniteSets, TLC

\* ------------------------------------------------------------------------
\* Bounds of the model
\* ------------------------------------------------------------------------
MaxPasses == 2

MaxSegments == 4

MaxVaults == 3

MaxEntries == 2

\* ------------------------------------------------------------------------
\* Program constants (src/unnamed/part_002, constants.ts)
\* ------------------------------------------------------------------------
OP_PROTOCOL_PREFIX == <<"op://">>
MIN_PATH_PARTS == 1
MAX_PATH_PARTS == 3
SECTION_FIELD_SEPARATOR == "."
DEFAULT_FAIL_ON_ERROR == TRUE
SPECIAL_URL_FIELDS == { <<"u","r","l">>, <<"w","e","b","s","i","t","e">> }
MaxPlaceholderWs == 20

\* The value `undefined` of an optional string.
Undefined == <<"<undefined>">>

\* ------------------------------------------------------------------------
\* String primitives (JavaScript String methods on token sequences)
\* ------------------------------------------------------------------------
IsWs(c) == c = " "

LowerChar(c) ==
  CASE c = "A" -> "a" [] c = "B" -> "b" [] c = "C" -> "c"
    [] c = "X" -> "x" [] c = "Y" -> "y" [] c = "F" -> "f"
    [] c = "U" -> "u" [] c = "R" -> "r" [] c = "L" -> "l"
    [] OTHER -> c

toLowerCase(s) == [i \in 1..Len(s) |-> LowerChar(s[i])]

RECURSIVE trimStart(_)
trimStart(s) == IF s # <<>> /\ IsWs(Head(s)) THEN trimStart(Tail(s)) ELSE s

RECURSIVE trimEnd(_)
trimEnd(s) ==
  IF s # <<>> /\ IsWs(s[Len(s)]) THEN trimEnd(SubSeq(s, 1, Len(s) - 1)) ELSE s

trim(s) == trimEnd(trimStart(s))

startsWith(s, p) == Len(s) >= Len(p) /\ SubSeq(s, 1, Len(p)) = p

\* s.split(sep) for a one-token separator: always at least one piece.
RECURSIVE split(_, _)
splitAt(s, sep, k) == <<SubSeq(s, 1, k - 1)>> \o split(SubSeq(s, k + 1, Len(s)), sep)

split(s, sep) ==
  IF \A i \in 1..Len(s) : s[i] # sep
  THEN <<s>>
  ELSE splitAt(s, sep, CHOOSE i \in 1..Len(s) :
                         s[i] = sep /\ \A j \in 1..(i - 1) : s[j] # sep)

\* parts.join(sep)
RECURSIVE join(_, _)
join(parts, sep) ==
  IF parts = <<>> THEN <<>>
  ELSE IF Len(parts) = 1 THEN parts[1]
  ELSE parts[1] \o <<sep>> \o join(Tail(parts), sep)

\* s.indexOf(p): the first position at which p occurs in s, 0 when it does not
\* (positions are 1-based here).
occursAt(s, p, i) == i + Len(p) - 1 <= Len(s) /\ SubSeq(s, i, i + Len(p) - 1) = p

indexOf(s, p) ==
  IF \E i \in 1..Len(s) : occursAt(s, p, i)
  THEN CHOOSE i \in 1..Len(s) :
         occursAt(s, p, i) /\ \A j \in 1..(i - 1) : ~occursAt(s, p, j)
  ELSE 0

\* ------------------------------------------------------------------------
\* parseOpUri (src/unnamed/part_002, opUri.ts)
\* ------------------------------------------------------------------------
NoUri == [valid |-> FALSE]

\* new URLSearchParams(queryString).get('target_url'): the value of the first
\* parameter named target_url, Undefined when there is none.
firstTargetUrlParam(params) ==
  IF \E i \in 1..Len(params) : startsWith(params[i], <<"target_url=">>)
  THEN Tail(params[CHOOSE i \in 1..Len(params) :
              /\ startsWith(params[i], <<"target_url=">>)
              /\ \A j \in 1..(i - 1) : ~startsWith(params[j], <<"target_url=">>)])
  ELSE Undefined

searchParamTargetUrl(queryString) == firstTargetUrlParam(split(queryString, "&"))

\* decodeURIComponent: the token "%" stands for a malformed escape sequence, on
\* which the function throws; "%20" decodes to a blank; other tokens are kept.
decodeFails(s) == \E i \in 1..Len(s) : s[i] = "%"
decodeURIComponent(s) == [i \in 1..Len(s) |-> IF s[i] = "%20" THEN " " ELSE s[i]]

\* decodedUrl.includes('://')
includesScheme(s) == \E i \in 1..Len(s) : s[i] \in {"https://", "http://", "op://", "://"}

\* Lines 105-112: decode, and make the URL absolute.
decodedTargetUrl(targetUrl) ==
  IF targetUrl = Undefined \/ targetUrl = <<>> THEN Undefined
  ELSE IF decodeFails(targetUrl) THEN Undefined
  ELSE IF ~includesScheme(decodeURIComponent(targetUrl))
  THEN <<"https://">> \o decodeURIComponent(targetUrl)
  ELSE decodeURIComponent(targetUrl)

parseTargetUrl(queryString) ==
  IF queryString = Undefined \/ queryString = <<>> THEN Undefined
  ELSE decodedTargetUrl(searchParamTargetUrl(queryString))

\* Lines 86-127: the segments are placed by their number and the session flag.
optTrim(p) == IF p = Undefined THEN Undefined ELSE trim(p)

\* A mutation of placeParts: two segments are item and field whatever the
\* session flag.
placePartsNoSession(pathParts, isSession) ==
  IF Len(pathParts) = 1
  THEN <<Undefined, Undefined, pathParts[1]>>
  ELSE IF Len(pathParts) = 2
  THEN <<Undefined, pathParts[1], pathParts[2]>>
  ELSE pathParts

\* A mutation of placeParts: the one segment of a session reference is the
\* vault.
placePartsSessionVault(pathParts, isSession) ==
  IF Len(pathParts) = 1 /\ isSession
  THEN <<pathParts[1], Undefined, Undefined>>
  ELSE IF Len(pathParts) = 1
  THEN <<Undefined, Undefined, pathParts[1]>>
  ELSE IF Len(pathParts) = 2 /\ ~isSession
  THEN <<Undefined, pathParts[1], pathParts[2]>>
  ELSE IF Len(pathParts) = 2 /\ isSession
  THEN <<pathParts[1], pathParts[2], Undefined>>
  ELSE pathParts

placeParts(pathParts, isSession) ==
  IF Len(pathParts) = 1
  THEN <<Undefined, Undefined, pathParts[1]>>
  ELSE IF Len(pathParts) = 2 /\ ~isSession
  THEN <<Undefined, pathParts[1], pathParts[2]>>
  ELSE IF Len(pathParts) = 2 /\ isSession
  THEN <<pathParts[1], pathParts[2], Undefined>>
  ELSE pathParts

opUriOf(placed, url) ==
  [ valid |-> TRUE,
    vault |-> optTrim(placed[1]),
    item  |-> optTrim(placed[2]),
    field |-> optTrim(placed[3]),
    url   |-> url ]

\* A mutation of parseParts: a segment of white space counts as not empty.
parsePartsNoTrim(pathParts, queryString, isSession) ==
  IF /\ Len(pathParts) >= MIN_PATH_PARTS
     /\ Len(pathParts) <= MAX_PATH_PARTS
     /\ \A i \in 1..Len(pathParts) : Len(pathParts[i]) > 0
  THEN opUriOf(placeParts(pathParts, isSession), parseTargetUrl(queryString))
  ELSE NoUri

\* Lines 73-84: the path is split on '/' and validated.
parseParts(pathParts, queryString, isSession) ==
  IF /\ Len(pathParts) >= MIN_PATH_PARTS
     /\ Len(pathParts) <= MAX_PATH_PARTS
     /\ \A i \in 1..Len(pathParts) : Len(trim(pathParts[i])) > 0
  THEN opUriOf(placeParts(pathParts, isSession), parseTargetUrl(queryString))
  ELSE NoUri

\* Line 71: const [pathOnly, queryString] = pathContent.split('?', 2)
parsePieces(pieces, isSession) ==
  parseParts(split(pieces[1], "/"),
             IF Len(pieces) >= 2 THEN pieces[2] ELSE Undefined,
             isSession)

parseContent(pathContent, isSession) ==
  IF pathContent = <<>> THEN NoUri
  ELSE parsePieces(split(pathContent, "?"), isSession)

parseOpUri(opUri, isSession) ==
  IF opUri = Undefined \/ opUri = <<>> \/ ~startsWith(opUri, OP_PROTOCOL_PREFIX)
  THEN NoUri
  ELSE parseContent(SubSeq(opUri, Len(OP_PROTOCOL_PREFIX) + 1, Len(opUri)), isSession)

\* ------------------------------------------------------------------------
\* Values of the configuration map (config.env) and of process.env
\* ------------------------------------------------------------------------
UndefV  == [t |-> "undef"]
StrV(s) == [t |-> "str", s |-> s]
ArrV(a) == [t |-> "arr", a |-> a]
NumV(n) == [t |-> "num", n |-> n]

\* env[key]: the value stored under key, undefined when the key is absent.
envGet(env, key) ==
  IF \E i \in 1..Len(env) : env[i].key = key
  THEN env[CHOOSE i \in 1..Len(env) : env[i].key = key].value
  ELSE UndefV

\* A mutation of nullish: an empty string counts as no value (a || b).
nullishOrFalsy(a, b) == IF a = UndefV \/ (a.t = "str" /\ a.s = <<>>) THEN b ELSE a

\* a ?? b
nullish(a, b) == IF a = UndefV THEN b ELSE a

\* !v for a configuration value
falsy(v) == v = UndefV \/ (v.t = "str" /\ v.s = <<>>) \/ (v.t = "num" /\ v.n = 0)

\* ------------------------------------------------------------------------
\* OpResolver.parseVaultEnvironment (src/src/OpResolver.ts:91-112)
\* ------------------------------------------------------------------------
RECURSIVE dropEmpty(_)
dropEmpty(parts) ==
  IF parts = <<>> THEN <<>>
  ELSE IF Len(Head(parts)) > 0 THEN <<Head(parts)>> \o dropEmpty(Tail(parts))
  ELSE dropEmpty(Tail(parts))

trimAll(parts) == [i \in 1..Len(parts) |-> trim(parts[i])]

\* A mutation of parseVaultEnvironment: the names of a list are taken as
\* they are.
parseVaultEnvironmentRawList(vaultEnv) ==
  IF falsy(vaultEnv) THEN <<>>
  ELSE IF vaultEnv.t = "arr" THEN dropEmpty(vaultEnv.a)
  ELSE IF vaultEnv.t = "str" THEN dropEmpty(trimAll(split(vaultEnv.s, ",")))
  ELSE <<>>

parseVaultEnvironment(vaultEnv) ==
  IF falsy(vaultEnv) THEN <<>>
  ELSE IF vaultEnv.t = "arr" THEN dropEmpty(trimAll(vaultEnv.a))
  ELSE IF vaultEnv.t = "str" THEN dropEmpty(trimAll(split(vaultEnv.s, ",")))
  ELSE <<>>

\* ------------------------------------------------------------------------
\* OpResolver.resolveSecretPath (src/src/OpResolver.ts:119-180)
\* ------------------------------------------------------------------------
NoIdentifier == [ok |-> FALSE]

\* A mutation of applySession: a complete session reference only fills the
\* settings that are not set.
applySessionFillsGaps(vaultEnv0, itemEnv0, sessionOp) ==
  IF ~sessionOp.valid
  THEN [ vaultEnv |-> vaultEnv0, itemEnv |-> itemEnv0, sessionUrl |-> Undefined ]
  ELSE [ vaultEnv   |-> IF falsy(vaultEnv0) /\ sessionOp.vault # Undefined
                        THEN StrV(sessionOp.vault) ELSE vaultEnv0,
         itemEnv    |-> IF falsy(itemEnv0) /\ sessionOp.item # Undefined
                        THEN StrV(sessionOp.item) ELSE itemEnv0,
         sessionUrl |-> sessionOp.url ]

\* Lines 133-145: the session reference is applied to the two settings.
applySession(vaultEnv0, itemEnv0, sessionOp) ==
  IF ~sessionOp.valid
  THEN [ vaultEnv |-> vaultEnv0, itemEnv |-> itemEnv0, sessionUrl |-> Undefined ]
  ELSE IF sessionOp.vault # Undefined /\ sessionOp.item # Undefined
  THEN [ vaultEnv   |-> StrV(sessionOp.vault),
         itemEnv    |-> StrV(sessionOp.item),
         sessionUrl |-> sessionOp.url ]
  ELSE [ vaultEnv   |-> IF falsy(vaultEnv0) /\ sessionOp.vault # Undefined
                        THEN StrV(sessionOp.vault) ELSE vaultEnv0,
         itemEnv    |-> IF falsy(itemEnv0) /\ sessionOp.item # Undefined
                        THEN StrV(sessionOp.item) ELSE itemEnv0,
         sessionUrl |-> sessionOp.url ]

withSession(vaultEnv0, itemEnv0, sessionEnv) ==
  IF sessionEnv.t = "str"
  THEN applySession(vaultEnv0, itemEnv0, parseOpUri(sessionEnv.s, TRUE))
  ELSE [ vaultEnv |-> vaultEnv0, itemEnv |-> itemEnv0, sessionUrl |-> Undefined ]

\* A mutation of ambientScope: the process environment is read before the
\* configuration map for the vault and item settings.
ambientScopeProcessFirst(env, procEnv) ==
  withSession(
    nullish(procEnv["CYOP_VAULT"], envGet(env, "CYOP_VAULT")),
    nullish(procEnv["CYOP_ITEM"], envGet(env, "CYOP_ITEM")),
    nullish(envGet(env, "CYOP_SESSION"),
      nullish(envGet(env, "C8Y_SESSION"),
        nullish(procEnv["CYOP_SESSION"], procEnv["C8Y_SESSION"]))))

\* A mutation of ambientScope: C8Y_SESSION is read before CYOP_SESSION, and
\* the process environment before the configuration map.
ambientScopeOtherSessionFirst(env, procEnv) ==
  withSession(
    nullish(envGet(env, "CYOP_VAULT"), procEnv["CYOP_VAULT"]),
    nullish(envGet(env, "CYOP_ITEM"), procEnv["CYOP_ITEM"]),
    nullish(procEnv["C8Y_SESSION"],
      nullish(procEnv["CYOP_SESSION"],
        nullish(envGet(env, "C8Y_SESSION"), envGet(env, "CYOP_SESSION")))))

\* The ambient scope: lines 122-145.  The result holds the vault setting, the
\* item setting and the session URL after the session reference was applied.
ambientScope(env, procEnv) ==
  withSession(
    nullish(envGet(env, "CYOP_VAULT"), procEnv["CYOP_VAULT"]),
    nullish(envGet(env, "CYOP_ITEM"), procEnv["CYOP_ITEM"]),
    nullish(envGet(env, "CYOP_SESSION"),
      nullish(envGet(env, "C8Y_SESSION"),
        nullish(procEnv["CYOP_SESSION"], procEnv["C8Y_SESSION"]))))

\* A mutation of vaultNamesOf: without a vault setting the vaults A, B and C
\* are the candidates.
vaultNamesOrEveryVault(opUri, vaultEnv) ==
  IF opUri.vault # Undefined THEN <<opUri.vault>>
  ELSE IF parseVaultEnvironment(vaultEnv) = <<>> THEN << <<"A">>, <<"B">>, <<"C">> >>
  ELSE parseVaultEnvironment(vaultEnv)

\* A mutation of vaultNamesOf that lets the ambient vaults in.
vaultNamesAmbientFirst(opUri, vaultEnv) ==
  IF opUri.vault # Undefined
  THEN parseVaultEnvironment(vaultEnv) \o <<opUri.vault>>
  ELSE parseVaultEnvironment(vaultEnv)

\* Lines 153-155
vaultNamesOf(opUri, vaultEnv) ==
  IF opUri.vault # Undefined THEN <<opUri.vault>> ELSE parseVaultEnvironment(vaultEnv)

\* Line 162: const itemName = opUri.item ?? itemEnv
itemNameOf(opUri, itemEnv) ==
  IF opUri.item # Undefined THEN opUri.item
  ELSE IF itemEnv.t = "str" THEN itemEnv.s
  ELSE Undefined

\* Line 164: const url = sessionUrl ?? opUri.url
targetUrlOf(opUri, sessionUrl) ==
  IF sessionUrl # Undefined THEN sessionUrl ELSE opUri.url

\* A mutation of identifierOf: an empty list of candidate vaults is let
\* through.
identifierOfAnyVaults(vaultNames, itemName, fieldSpecifier, url, originalOpPath) ==
  IF itemName = Undefined \/ itemName = <<>>
     \/ fieldSpecifier = Undefined \/ fieldSpecifier = <<>>
  THEN NoIdentifier
  ELSE [ ok             |-> TRUE,
         vaultNames     |-> vaultNames,
         itemName       |-> itemName,
         fieldSpecifier |-> fieldSpecifier,
         originalPath   |-> originalOpPath,
         target_url     |-> url ]

\* Lines 156-179
identifierOf(vaultNames, itemName, fieldSpecifier, url, originalOpPath) ==
  IF Len(vaultNames) = 0 THEN NoIdentifier
  ELSE IF itemName = Undefined \/ itemName = <<>>
          \/ fieldSpecifier = Undefined \/ fieldSpecifier = <<>>
  THEN NoIdentifier
  ELSE [ ok             |-> TRUE,
         vaultNames     |-> vaultNames,
         itemName       |-> itemName,
         fieldSpecifier |-> fieldSpecifier,
         originalPath   |-> originalOpPath,
         target_url     |-> url ]

resolveInScope(scope, opUri, originalOpPath) ==
  IF ~opUri.valid THEN NoIdentifier
  ELSE identifierOf(vaultNamesOf(opUri, scope.vaultEnv),
                    itemNameOf(opUri, scope.itemEnv),
                    opUri.field,
                    targetUrlOf(opUri, scope.sessionUrl),
                    originalOpPath)

resolveSecretPath(env, procEnv, originalOpPath) ==
  resolveInScope(ambientScope(env, procEnv), parseOpUri(originalOpPath, FALSE),
                 originalOpPath)

\* ------------------------------------------------------------------------
\* OpResolver.findFieldValue (src/src/OpResolver.ts:186-348)
\* ------------------------------------------------------------------------
NoSection == [id |-> Undefined, label |-> Undefined]

truthy(s) == s # Undefined /\ s # <<>>

\* The entry a Map holds for a key after the loop of lines 215-254: the last
\* field that set the key (0: the key is not in the Map).  sets[i] tells
\* whether field i sets the key.
lastSetter(sets) ==
  IF \E i \in 1..Len(sets) : sets[i]
  THEN CHOOSE i \in 1..Len(sets) : sets[i] /\ \A j \in (i + 1)..Len(sets) : ~sets[j]
  ELSE 0

fieldByLabel(fields, key) ==
  lastSetter([i \in 1..Len(fields) |->
    truthy(fields[i].label) /\ toLowerCase(fields[i].label) = key])

fieldById(fields, key) ==
  lastSetter([i \in 1..Len(fields) |->
    truthy(fields[i].id) /\ toLowerCase(fields[i].id) = key])

sectionKey(sec, name) ==
  toLowerCase(sec) \o <<SECTION_FIELD_SEPARATOR>> \o toLowerCase(name)

fieldBySectionAndLabel(fields, key) ==
  lastSetter([i \in 1..Len(fields) |->
    /\ truthy(fields[i].label)
    /\ \/ truthy(fields[i].section.label)
          /\ sectionKey(fields[i].section.label, fields[i].label) = key
       \/ truthy(fields[i].section.id)
          /\ sectionKey(fields[i].section.id, fields[i].label) = key])

fieldBySectionAndId(fields, key) ==
  lastSetter([i \in 1..Len(fields) |->
    /\ truthy(fields[i].id)
    /\ \/ truthy(fields[i].section.label)
          /\ sectionKey(fields[i].section.label, fields[i].id) = key
       \/ truthy(fields[i].section.id)
          /\ sectionKey(fields[i].section.id, fields[i].id) = key])

\* A mutation of orElse: the second lookup is preferred.
orElseSecondFirst(a, b) == IF b # 0 THEN b ELSE a

\* a || b for two Map lookups
orElse(a, b) == IF a # 0 THEN a ELSE b

\* A mutation of firstPrimary: no entry is taken as primary.
firstPrimaryNone(urls) == 0

\* Attempt 3 (lines 321-342): the item's own urls.
firstPrimary(urls) ==
  IF \E i \in 1..Len(urls) : urls[i].primary
  THEN CHOOSE i \in 1..Len(urls) :
         urls[i].primary /\ \A j \in 1..(i - 1) : ~urls[j].primary
  ELSE 0

urlAt(urls, p) ==
  IF Len(urls) = 0 THEN Undefined
  ELSE IF p # 0 /\ truthy(urls[p].href) THEN urls[p].href
  ELSE IF truthy(urls[1].href) THEN urls[1].href
  ELSE Undefined

urlFromItem(urls) == urlAt(urls, firstPrimary(urls))

\* Attempt 2 (lines 276-319): section.field.
sectionLookup(fields, targetSectionName, targetFieldName) ==
  IF targetFieldName # <<>> /\ targetSectionName # <<>>
  THEN orElse(
         fieldBySectionAndLabel(fields,
           targetSectionName \o <<SECTION_FIELD_SEPARATOR>> \o targetFieldName),
         fieldBySectionAndId(fields,
           targetSectionName \o <<SECTION_FIELD_SEPARATOR>> \o targetFieldName))
  ELSE 0

sectionParts(fields, parts) ==
  IF Len(parts) > 1
  THEN sectionLookup(fields,
         toLowerCase(join(SubSeq(parts, 1, Len(parts) - 1), SECTION_FIELD_SEPARATOR)),
         toLowerCase(parts[Len(parts)]))
  ELSE 0

sectionMatch(fields, fieldSpecifier) ==
  sectionParts(fields, split(fieldSpecifier, SECTION_FIELD_SEPARATOR))

\* A mutation of matchedValue: the section match is preferred.
matchedValueSectionFirst(itemObject, fieldSpecifierLower, direct, sect) ==
  IF sect # 0 THEN itemObject.fields[sect].value
  ELSE IF direct # 0 THEN itemObject.fields[direct].value
  ELSE IF fieldSpecifierLower \in SPECIAL_URL_FIELDS
  THEN urlFromItem(itemObject.urls)
  ELSE Undefined

\* Lines 262-347, given the direct match and the section match (0: none).
matchedValue(itemObject, fieldSpecifierLower, direct, sect) ==
  IF direct # 0 THEN itemObject.fields[direct].value
  ELSE IF sect # 0 THEN itemObject.fields[sect].value
  ELSE IF fieldSpecifierLower \in SPECIAL_URL_FIELDS
  THEN urlFromItem(itemObject.urls)
  ELSE Undefined

\* A mutation of findField: the target URL is used only when nothing else
\* matches.
findFieldTargetUrlLast(itemObject, fieldSpecifier, fieldSpecifierLower, url) ==
  IF fieldSpecifier \notin SPECIAL_URL_FIELDS /\ Len(itemObject.fields) = 0
  THEN Undefined
  ELSE IF matchedValue(itemObject, fieldSpecifierLower,
            orElse(fieldByLabel(itemObject.fields, fieldSpecifierLower),
                   fieldById(itemObject.fields, fieldSpecifierLower)),
            sectionMatch(itemObject.fields, fieldSpecifier)) # Undefined
  THEN matchedValue(itemObject, fieldSpecifierLower,
         orElse(fieldByLabel(itemObject.fields, fieldSpecifierLower),
                fieldById(itemObject.fields, fieldSpecifierLower)),
         sectionMatch(itemObject.fields, fieldSpecifier))
  ELSE IF truthy(url) /\ fieldSpecifierLower \in SPECIAL_URL_FIELDS
  THEN url
  ELSE Undefined

findField(itemObject, fieldSpecifier, fieldSpecifierLower, url) ==
  IF fieldSpecifier \notin SPECIAL_URL_FIELDS /\ Len(itemObject.fields) = 0
  THEN Undefined
  ELSE IF truthy(url) /\ fieldSpecifierLower \in SPECIAL_URL_FIELDS
  THEN url
  ELSE matchedValue(itemObject, fieldSpecifierLower,
         orElse(fieldByLabel(itemObject.fields, fieldSpecifierLower),
                fieldById(itemObject.fields, fieldSpecifierLower)),
         sectionMatch(itemObject.fields, fieldSpecifier))

findFieldValue(itemObject, resolvedIdentifier) ==
  findField(itemObject, resolvedIdentifier.fieldSpecifier,
            toLowerCase(resolvedIdentifier.fieldSpecifier),
            resolvedIdentifier.target_url)

\* ------------------------------------------------------------------------
\* The backend (@1password/op-js item.get, called at OpResolver.ts:418-421)
\* ------------------------------------------------------------------------
\* A backend holds item records; a record flagged malformed stands for a
\* response that is not an item (a field or a list of fields).
refersToVault(vaultName, v) ==
  v.id = vaultName \/ toLowerCase(v.name) = toLowerCase(vaultName)

refersToItem(itemName, it) ==
  it.id = itemName \/ toLowerCase(it.title) = toLowerCase(itemName)

backendError(itemName, vaultName) ==
  [type |-> "backend", item |-> itemName, vault |-> vaultName]

stored(backend, itemName, vaultName) ==
  { r \in backend : refersToVault(vaultName, r.item.vault)
                    /\ refersToItem(itemName, r.item) }

answer(r) == IF r.malformed THEN [value |-> "not an item"] ELSE r.item

\* item.get(itemName, {vault: vaultName}): the stored item, or a thrown error.
itemGet(backend, itemName, vaultName) ==
  IF stored(backend, itemName, vaultName) = {}
  THEN [thrown |-> backendError(itemName, vaultName)]
  ELSE answer(CHOOSE r \in stored(backend, itemName, vaultName) : TRUE)

\* ------------------------------------------------------------------------
\* OpResolver.getAndFindSecretValue (src/src/OpResolver.ts:354-500)
\* ------------------------------------------------------------------------
isErrorEntry(entry) == "error" \in DOMAIN entry

errorEntry(error, vaultName, itemName, originalPath) ==
  [ error |-> error, vaultName |-> vaultName, itemName |-> itemName,
    originalPath |-> originalPath ]

includes(seq, x) == \E i \in 1..Len(seq) : seq[i] = x

\* Lines 363-366 and 377-386: does the cached entry serve the request?
\* A mutation of cacheEntryMatches: a cached item is matched by its id or
\* title alone.
cacheEntryMatchesAnyVault(cachedEntry, vaultNames, itemName) ==
  IF isErrorEntry(cachedEntry)
  THEN includes(vaultNames, cachedEntry.vaultName) /\ cachedEntry.itemName = itemName
  ELSE \/ cachedEntry.id = itemName
       \/ toLowerCase(cachedEntry.title) = toLowerCase(itemName)

cacheEntryMatches(cachedEntry, vaultNames, itemName) ==
  IF isErrorEntry(cachedEntry)
  THEN includes(vaultNames, cachedEntry.vaultName) /\ cachedEntry.itemName = itemName
  ELSE /\ \E i \in 1..Len(vaultNames) :
            \/ cachedEntry.vault.id = vaultNames[i]
            \/ toLowerCase(cachedEntry.vault.name) = toLowerCase(vaultNames[i])
       /\ \/ cachedEntry.id = itemName
          \/ toLowerCase(cachedEntry.title) = toLowerCase(itemName)

\* The first entry of the cache, in cache order, that serves the request; 0
\* when there is none (lines 361-407).
cacheLookup(itemCache, vaultNames, itemName) ==
  IF \E i \in 1..Len(itemCache) : cacheEntryMatches(itemCache[i], vaultNames, itemName)
  THEN CHOOSE i \in 1..Len(itemCache) :
         /\ cacheEntryMatches(itemCache[i], vaultNames, itemName)
         /\ \A j \in 1..(i - 1) : ~cacheEntryMatches(itemCache[j], vaultNames, itemName)
  ELSE 0

\* Outcomes of a call: a value, a thrown error, or undefined after a warning.
NoError == [type |-> "none"]
Value(v)  == [kind |-> "value", value |-> v]
Throw(e)  == [kind |-> "throw", error |-> e]
Warned(e) == [kind |-> "undefined", error |-> e]

\* A mutation of failWith: the failure is raised whatever the policy.
failWithAlwaysThrows(failOnError, e) == Throw(e)

\* A mutation of failWith: the failure is logged whatever the policy.
failWithNeverThrows(failOnError, e) == Warned(e)

\* if (this.failOnError) throw new Error(message); this.log(message); return undefined;
failWith(failOnError, e) == IF failOnError THEN Throw(e) ELSE Warned(e)

\* error.message.startsWith(ERROR_PREFIX), line 474: true of the error the
\* resolver itself throws inside the try block, false of the backend's errors.
startsWithErrorPrefix(e) == e.type = "fieldNotFound"

\* A mutation of isLastVault: every failure is taken for the last one.
isLastVaultAlways(vaultNames, i) == TRUE

\* Line 470: if (vaultName === vaultNames[vaultNames.length - 1])
isLastVault(vaultNames, i) == vaultNames[i] = vaultNames[Len(vaultNames)]

\* A mutation of terminalFailure: the failure names the last vault only.
terminalFailureLastVaultOnly(failOnError, id, error) ==
  IF startsWithErrorPrefix(error)
  THEN failWith(failOnError, error)
  ELSE failWith(failOnError,
         [ type |-> "loadFailed", path |-> id.originalPath, item |-> id.itemName,
           vaults |-> <<id.vaultNames[Len(id.vaultNames)]>>, cause |-> error ])

\* Lines 471-490: the terminal failure built in the catch block.
terminalFailure(failOnError, id, error) ==
  IF startsWithErrorPrefix(error)
  THEN failWith(failOnError, error)
  ELSE IF Len(id.vaultNames) = 1
  THEN failWith(failOnError,
         [ type |-> "loadFailed", path |-> id.originalPath, item |-> id.itemName,
           vaults |-> <<id.vaultNames[1]>>, cause |-> error ])
  ELSE failWith(failOnError,
         [ type |-> "loadFailedAllVaults", path |-> id.originalPath,
           item |-> id.itemName, vaults |-> id.vaultNames, cause |-> error ])

\* The result of a call: the item cache after it, the fetches it issued in
\* order, its outcome, and the position of the cache entry that served it.
Result(cache, fetches, out, hit) ==
  [cache |-> cache, fetches |-> fetches, out |-> out, hit |-> hit]

fieldNotFound(id, data) ==
  [ type |-> "fieldNotFound", field |-> id.fieldSpecifier, item |-> data.id,
    path |-> id.originalPath ]

formatError(id, vaultName) ==
  [ type |-> "format", item |-> id.itemName, vault |-> vaultName ]

\* Lines 412-499: the loop over the candidate vaults, from list position i.
RECURSIVE fetchLoop(_, _, _, _, _, _)

\* The catch block, lines 457-492; cache already holds the error entry.
caught(backend, failOnError, id, i, cache, fetches, error) ==
  IF isLastVault(id.vaultNames, i)
  THEN Result(cache, fetches, terminalFailure(failOnError, id, error), 0)
  ELSE fetchLoop(backend, failOnError, id, i + 1, cache, fetches)

\* Lines 443-456; cache already holds the fetched item.
afterFetch(backend, failOnError, id, i, cache, fetches, data, secretValue) ==
  IF secretValue # Undefined
  THEN Result(cache, fetches, Value(secretValue), 0)
  ELSE IF failOnError
  THEN \* the throw of line 453 is inside the try block: line 457 catches it
       caught(backend, failOnError, id, i,
              Append(cache, errorEntry(fieldNotFound(id, data), id.vaultNames[i],
                                       id.itemName, id.originalPath)),
              fetches, fieldNotFound(id, data))
  ELSE Result(cache, fetches, Warned(fieldNotFound(id, data)), 0)

\* Lines 417-492 for the answer data of item.get.
fetched(backend, failOnError, id, i, cache, fetches, data) ==
  IF "thrown" \in DOMAIN data
  THEN caught(backend, failOnError, id, i,
              Append(cache, errorEntry(data.thrown, id.vaultNames[i], id.itemName,
                                       id.originalPath)),
              fetches, data.thrown)
  ELSE IF "fields" \notin DOMAIN data
  THEN \* lines 423-434: cache the format error and continue
       fetchLoop(backend, failOnError, id, i + 1,
                 Append(cache, errorEntry(formatError(id, id.vaultNames[i]),
                                          id.vaultNames[i], id.itemName,
                                          id.originalPath)),
                 fetches)
  ELSE afterFetch(backend, failOnError, id, i, Append(cache, data), fetches, data,
                  findFieldValue(data, id))

fetchLoop(backend, failOnError, id, i, cache, fetches) ==
  IF i > Len(id.vaultNames)
  THEN Result(cache, fetches,
              failWith(failOnError,
                [ type |-> "notFoundInAnyVault", item |-> id.itemName,
                  vaults |-> id.vaultNames, path |-> id.originalPath ]), 0)
  ELSE fetched(backend, failOnError, id, i, cache,
               Append(fetches, [item |-> id.itemName, vault |-> id.vaultNames[i]]),
               itemGet(backend, id.itemName, id.vaultNames[i]))

\* Lines 386-404: a cached item serves the request.
fromCachedItem(failOnError, itemCache, id, hit, secretValue) ==
  IF secretValue # Undefined
  THEN Result(itemCache, <<>>, Value(secretValue), hit)
  ELSE Result(itemCache, <<>>,
         failWith(failOnError,
           [ type |-> "fieldNotFoundInCachedItem", field |-> id.fieldSpecifier,
             item |-> itemCache[hit].id, path |-> id.originalPath ]), hit)

\* A mutation of served: a cached item without the field is fetched again.
servedFetchesMissingField(backend, failOnError, itemCache, id, hit) ==
  IF hit = 0 THEN fetchLoop(backend, failOnError, id, 1, itemCache, <<>>)
  ELSE IF isErrorEntry(itemCache[hit])
  THEN Result(itemCache, <<>>,
         failWith(failOnError,
           [ type |-> "previouslyFailed", item |-> id.itemName,
             vault |-> itemCache[hit].vaultName,
             path |-> itemCache[hit].originalPath,
             cause |-> itemCache[hit].error ]), hit)
  ELSE IF findFieldValue(itemCache[hit], id) = Undefined
  THEN fetchLoop(backend, failOnError, id, 1, itemCache, <<>>)
  ELSE fromCachedItem(failOnError, itemCache, id, hit,
                      findFieldValue(itemCache[hit], id))

\* Lines 361-407 for the position hit of the entry that serves the request.
served(backend, failOnError, itemCache, id, hit) ==
  IF hit = 0 THEN fetchLoop(backend, failOnError, id, 1, itemCache, <<>>)
  ELSE IF isErrorEntry(itemCache[hit])
  THEN Result(itemCache, <<>>,
         failWith(failOnError,
           [ type |-> "previouslyFailed", item |-> id.itemName,
             vault |-> itemCache[hit].vaultName,
             path |-> itemCache[hit].originalPath,
             cause |-> itemCache[hit].error ]), hit)
  ELSE fromCachedItem(failOnError, itemCache, id, hit,
                      findFieldValue(itemCache[hit], id))

getAndFindSecretValue(backend, failOnError, itemCache, id) ==
  served(backend, failOnError, itemCache, id,
         cacheLookup(itemCache, id.vaultNames, id.itemName))

\* ------------------------------------------------------------------------
\* placeholderRegex (src/unnamed/part_002:18-21)
\*   {{ \s{0,20} ( op:// [^}]+? ) \s{0,20} }}   with the flag g
\* ------------------------------------------------------------------------
\* The length of the run of whitespace tokens of s that starts at position p.
RECURSIVE wsRun(_, _)
wsRun(s, p) == IF p <= Len(s) /\ IsWs(s[p]) THEN 1 + wsRun(s, p + 1) ELSE 0

NoMatch == [ok |-> FALSE]

\* The lazy [^}]+? takes the fewest tokens (at least one) that leave only
\* \s{0,20} before the closing braces.
fitsCapture(body, n) ==
  /\ \A j \in (n + 1)..Len(body) : IsWs(body[j])
  /\ Len(body) - n <= MaxPlaceholderWs

captured(s, p, e, body) ==
  IF \E n \in 1..Len(body) : fitsCapture(body, n)
  THEN [ ok          |-> TRUE,
         last        |-> e,
         placeholder |-> SubSeq(s, p, e),
         opPath      |-> <<"op://">> \o
           SubSeq(body, 1, CHOOSE n \in 1..Len(body) :
                             /\ fitsCapture(body, n)
                             /\ \A m \in 1..(n - 1) : ~fitsCapture(body, m)) ]
  ELSE NoMatch

closeAt(s, p, o, e) == captured(s, p, e, SubSeq(s, o + 1, e - 1))

\* o is the position of the prefix token.
fromPrefix(s, p, o) ==
  IF o > Len(s) THEN NoMatch
  ELSE IF s[o] # "op://" THEN NoMatch
  ELSE IF \A e \in (o + 1)..Len(s) : s[e] # "}}" THEN NoMatch
  ELSE closeAt(s, p, o, CHOOSE e \in (o + 1)..Len(s) :
                          s[e] = "}}" /\ \A y \in (o + 1)..(e - 1) : s[y] # "}}")

afterOpen(s, p, lead) ==
  IF lead > MaxPlaceholderWs THEN NoMatch ELSE fromPrefix(s, p, p + 1 + lead)

\* The match of the pattern that starts exactly at position p, if any.
matchAt(s, p) == IF s[p] # "{{" THEN NoMatch ELSE afterOpen(s, p, wsRun(s, p + 1))

\* All matches from position p on, left to right (the exec loop, lines 510-516).
RECURSIVE execAll(_, _)
execFrom(s, p, m) ==
  IF m.ok
  THEN <<[placeholder |-> m.placeholder, opPath |-> m.opPath]>> \o execAll(s, m.last + 1)
  ELSE execAll(s, p + 1)

execAll(s, p) == IF p > Len(s) THEN <<>> ELSE execFrom(s, p, matchAt(s, p))

\* placeholderRegex.exec(originalValue) !== null (line 665; lastIndex is 0 there)
hasPlaceholder(s) == \E p \in 1..Len(s) : matchAt(s, p).ok

\* The replacement text of String.prototype.replace: $$ is a dollar sign, $&
\* the matched text, $` the text before the match, $' the text after it.
RECURSIVE expandReplacement(_, _, _, _)
expandReplacement(r, matched, before, after) ==
  IF r = <<>> THEN <<>>
  ELSE IF r[1] = "$" /\ Len(r) >= 2 /\ r[2] \in {"$", "&", "`", "'"}
  THEN (CASE r[2] = "$" -> <<"$">>
          [] r[2] = "&" -> matched
          [] r[2] = "`" -> before
          [] r[2] = "'" -> after)
       \o expandReplacement(SubSeq(r, 3, Len(r)), matched, before, after)
  ELSE <<r[1]>> \o expandReplacement(Tail(r), matched, before, after)

replaceAt(s, pattern, replacement, at) ==
  IF at = 0 THEN s
  ELSE SubSeq(s, 1, at - 1)
       \o expandReplacement(replacement, pattern, SubSeq(s, 1, at - 1),
                            SubSeq(s, at + Len(pattern), Len(s)))
       \o SubSeq(s, at + Len(pattern), Len(s))

\* resultString.replace(placeholder, secretValue): the first occurrence only.
replace(s, pattern, replacement) == replaceAt(s, pattern, replacement, indexOf(s, pattern))

\* ------------------------------------------------------------------------
\* The resolved-value cache: Map<string, string | undefined>
\* ------------------------------------------------------------------------
rcHas(rc, path) == \E e \in rc : e.path = path
rcGet(rc, path) == (CHOOSE e \in rc : e.path = path).value
rcSet(rc, path, v) == { e \in rc : e.path # path } \cup { [path |-> path, value |-> v] }

\* ------------------------------------------------------------------------
\* The record kept of one call of getAndFindSecretValue (the history the
\* properties are stated on)
\* ------------------------------------------------------------------------
NoEntry == [none |-> TRUE]

Request(entry, id, cacheBefore, res) ==
  [ entry       |-> entry,
    id          |-> id,
    cacheBefore |-> cacheBefore,
    hitEntry    |-> IF res.hit = 0 THEN NoEntry ELSE cacheBefore[res.hit],
    fetches     |-> res.fetches,
    out         |-> res.out ]

\* ------------------------------------------------------------------------
\* OpResolver.replacePlaceholders (src/src/OpResolver.ts:505-562)
\* ------------------------------------------------------------------------
\* st: the item cache, the resolved-value cache, the result string, the
\* requests made, the warnings logged and the number of replacements done so
\* far; thrown is the error that ended the loop.
RECURSIVE replaceLoop(_, _, _, _, _, _, _, _)

\* Lines 550-559
substituted(st, placeholder, secretValue) ==
  IF secretValue # Undefined
  THEN [st EXCEPT !.result = replace(st.result, placeholder, secretValue),
                  !.replaced = @ + 1]
  ELSE st

\* Lines 546-547 for the result res of getAndFindSecretValue.
afterResolve(backend, failOnError, env, procEnv, entry, reps, k, st, id, res) ==
  IF res.out.kind = "throw"
  THEN [st EXCEPT !.cache = res.cache,
                  !.reqs = Append(@, Request(entry, id, st.cache, res)),
                  !.thrown = res.out.error]
  ELSE replaceLoop(backend, failOnError, env, procEnv, entry, reps, k + 1,
         substituted(
           [st EXCEPT !.cache = res.cache,
                      !.reqs = Append(@, Request(entry, id, st.cache, res)),
                      !.rcache = rcSet(@, reps[k].opPath,
                                       IF res.out.kind = "value"
                                       THEN res.out.value ELSE Undefined),
                      !.warnings = IF res.out.kind = "undefined"
                                   THEN Append(@, res.out.error) ELSE @],
           reps[k].placeholder,
           IF res.out.kind = "value" THEN res.out.value ELSE Undefined))

\* Lines 535-547 for the identifier id of the placeholder's path.
withIdentifier(backend, failOnError, env, procEnv, entry, reps, k, st, id) ==
  IF ~id.ok
  THEN IF failOnError
       THEN [st EXCEPT !.thrown =
               [ type |-> "cannotResolvePlaceholder",
                 placeholder |-> reps[k].placeholder, path |-> reps[k].opPath ]]
       ELSE replaceLoop(backend, failOnError, env, procEnv, entry, reps, k + 1,
              [st EXCEPT !.rcache = rcSet(@, reps[k].opPath, Undefined),
                         !.warnings = Append(@, [ type |-> "cannotResolvePath",
                                                  path |-> reps[k].opPath ])])
  ELSE afterResolve(backend, failOnError, env, procEnv, entry, reps, k, st, id,
                    getAndFindSecretValue(backend, failOnError, st.cache, id))

\* Lines 526-560
replaceLoop(backend, failOnError, env, procEnv, entry, reps, k, st) ==
  IF k > Len(reps) THEN st
  ELSE IF rcHas(st.rcache, reps[k].opPath)
  THEN replaceLoop(backend, failOnError, env, procEnv, entry, reps, k + 1,
                   substituted(st, reps[k].placeholder, rcGet(st.rcache, reps[k].opPath)))
  ELSE withIdentifier(backend, failOnError, env, procEnv, entry, reps, k, st,
                      resolveSecretPath(env, procEnv, reps[k].opPath))

replacePlaceholders(backend, failOnError, env, procEnv, entry, cache, rcache, originalString) ==
  replaceLoop(backend, failOnError, env, procEnv, entry, execAll(originalString, 1), 1,
              [ cache |-> cache, rcache |-> rcache, result |-> originalString,
                reqs |-> <<>>, warnings |-> <<>>, replaced |-> 0, thrown |-> NoError ])

\* ------------------------------------------------------------------------
\* OpResolver.resolveOpUri (src/src/OpResolver.ts:576-586)
\* ------------------------------------------------------------------------
\* The result carries the identifier, for the record of the request.
resolveIdentified(backend, failOnError, itemCache, opUri, id) ==
  IF ~id.ok
  THEN [ id  |-> id,
         res |-> Result(itemCache, <<>>,
                   IF failOnError
                   THEN Throw([type |-> "cannotResolvePath", path |-> opUri])
                   ELSE Warned([type |-> "cannotResolvePath", path |-> opUri]), 0) ]
  ELSE [ id |-> id, res |-> getAndFindSecretValue(backend, failOnError, itemCache, id) ]

resolveOpUri(backend, failOnError, env, procEnv, itemCache, opUri) ==
  resolveIdentified(backend, failOnError, itemCache, opUri,
                    resolveSecretPath(env, procEnv, opUri))

\* ------------------------------------------------------------------------
\* Inputs of a pass
\* ------------------------------------------------------------------------
S_A == <<"A">>
S_B == <<"B">>
S_C == <<"C">>
S_X == <<"X">>

VaultRecords ==
  { [id |-> <<"va">>, name |-> S_A],
    [id |-> <<"vb">>, name |-> S_B],
    [id |-> <<"vc">>, name |-> S_C] }

Field(id, label, value) ==
  [id |-> id, label |-> label, value |-> value, section |-> NoSection]

\* The item titled X as stored in vault v: kind "full" has the fields f and
\* g, kind "partial" only g, kind "malformed" is answered with a non-item.
StoredItem(v, kind) ==
  [ malformed |-> kind = "malformed",
    item |-> [ id     |-> <<"i">> \o v.id,
               title  |-> S_X,
               vault  |-> v,
               fields |-> IF kind = "full"
                          THEN << Field(<<"1">>, <<"f">>, <<"s">> \o v.name),
                                  Field(<<"2">>, <<"g">>, <<"t">> \o v.name) >>
                          ELSE << Field(<<"2">>, <<"g">>, <<"t">> \o v.name) >>,
               urls   |-> <<>> ] ]

\* Where X is stored: one kind per vault A, B, C.
Presences ==
  { <<"absent", "full", "absent">>,
    <<"absent", "full", "full">>,
    <<"full", "full", "absent">>,
    <<"partial", "full", "absent">>,
    <<"absent", "absent", "absent">>,
    <<"malformed", "full", "absent">>,
    <<"absent", "partial", "full">>,
    <<"absent", "absent", "partial">> }

VaultAt(i) == CHOOSE v \in VaultRecords : v.name = <<S_A, S_B, S_C>>[i]

BackendOf(presence) ==
  { StoredItem(VaultAt(i), presence[i]) : i \in { j \in 1..3 : presence[j] # "absent" } }

Backends == { BackendOf(p) : p \in Presences }

NoProcEnv ==
  [ k \in {"CYOP_VAULT", "CYOP_ITEM", "CYOP_SESSION", "C8Y_SESSION"} |-> UndefV ]

ProcEnvs == { NoProcEnv }

\* The scope entries of the configuration map.
Scopes ==
  { <<>>,
    << [key |-> "CYOP_VAULT", value |-> StrV(<<"A", ",", "B", ",", "C">>)],
       [key |-> "CYOP_ITEM",  value |-> StrV(S_X)] >>,
    << [key |-> "CYOP_VAULT", value |-> ArrV(<<S_B, S_A>>)] >>,
    << [key |-> "CYOP_VAULT", value |-> StrV(<<"A", ",", " ", "B", ",", "A">>)],
       [key |-> "CYOP_ITEM",  value |-> StrV(S_X)] >>,
    << [key |-> "CYOP_SESSION", value |-> StrV(<<"op://", "B", "/", "X">>)] >> }

\* The values of the other entries.
EntryValues ==
  { StrV(<<"op://", "A", "/", "X", "/", "f">>),
    StrV(<<"op://", "C", "/", "X", "/", "f">>),
    StrV(<<" ", "op://", "X", "/", "f", " ">>),
    StrV(<<"op://", "x", "/", "g">>),
    StrV(<<"op://", "A", "/", "x", "/", "f">>),
    StrV(<<"op://", "f">>),
    StrV(<<"op://", "X", "/", "/", "f">>),
    StrV(<<" ", "t", "{{", " ", "op://", "X", "/", "f", " ", "}}", " ">>),
    StrV(<<"{{", "op://", "X", "/", "f", "}}", "{{", "op://", "B", "/", "X", "/", "h", "}}">>),
    StrV(<<" ", "t", "{{", "op://", "f">>),
    NumV(1) }

KeyNames == <<"K1", "K2", "K3", "K4">>

RECURSIVE SeqsUpTo(_, _)
SeqsUpTo(S, n) ==
  IF n = 0 THEN { <<>> }
  ELSE LET shorter == SeqsUpTo(S, n - 1)
       IN  shorter \cup { Append(q, x) : q \in { r \in shorter : Len(r) = n - 1 }, x \in S }

Keyed(values) == [i \in 1..Len(values) |-> [key |-> KeyNames[i], value |-> values[i]]]

Envs == { scope \o Keyed(values) : scope \in Scopes, values \in SeqsUpTo(EntryValues, MaxEntries) }

\* ------------------------------------------------------------------------
\* Inputs of a pass that exercise the scope settings
\* ------------------------------------------------------------------------
S_Y == <<"Y">>

\* A setting that is absent, or present with one of the values.
optional(key, values) == { <<>> } \cup { <<[key |-> key, value |-> v]>> : v \in values }

\* op://<vault>/<item>?target_url=<u>
sessionRef(vault, item, u) ==
  StrV(<<"op://">> \o vault \o <<"/">> \o item \o <<"?", "target_url=">> \o u)

ScopeSettings ==
  { a \o b \o c \o d :
      a \in optional("CYOP_VAULT", { StrV(S_A), StrV(<<>>) }),
      b \in optional("CYOP_ITEM", { StrV(S_X) }),
      c \in optional("CYOP_SESSION",
              { sessionRef(S_B, S_X, <<"u", "1">>), StrV(<<"op://", "B">>) }),
      d \in optional("C8Y_SESSION", { StrV(<<"op://", "C", "/", "Y">>) }) }

ScopeProcEnvs ==
  { [ CYOP_VAULT |-> v, CYOP_ITEM |-> i, CYOP_SESSION |-> s, C8Y_SESSION |-> c ] :
      v \in { UndefV, StrV(S_C) },
      i \in { UndefV, StrV(S_Y) },
      s \in { UndefV, StrV(<<"op://", "A", "/", "Y">>) },
      c \in { UndefV, sessionRef(S_C, S_X, <<"u", "3">>) } }

ScopeEntryValues ==
  { StrV(<<"op://", "f">>),
    StrV(<<"op://", "X", "/", "u", "r", "l", "?", "target_url=", "h", "2">>),
    StrV(<<"{{", "op://", "g", "}}">>),
    StrV(<<"op://", "A", "/", "Y", "/", "f">>) }

ScopeEnvs ==
  { scope \o Keyed(values) :
      scope \in ScopeSettings, values \in SeqsUpTo(ScopeEntryValues, MaxEntries) }

ScopeBackends == { BackendOf(<<"full", "full", "full">>) }

\* ------------------------------------------------------------------------
\* Inputs of a pass that exercise the field matcher and the substitution
\* ------------------------------------------------------------------------
Section(id, label) == [id |-> id, label |-> label]

FieldIn(id, label, value, section) ==
  [id |-> id, label |-> label, value |-> value, section |-> section]

Url(href, primary) == [href |-> href, primary |-> primary]

\* The item titled X in vault A with the fields and urls given.
ItemOf(fields, urls) ==
  [ malformed |-> FALSE,
    item |-> [ id |-> <<"i", "1">>, title |-> S_X, vault |-> VaultAt(1),
               fields |-> fields, urls |-> urls ] ]

\* One item per case of the field matcher: a field with the id f and a
\* field with the label F, in both orders; a field labelled s.f outside any
\* section, a field f in the section with the label s and a field f in the
\* section with the id s, in pairs and both orders; urls with and without
\* a primary one; a field labelled url; a value holding a replacement
\* pattern; a value that reads like a placeholder; a field f in the section
\* labelled s.s; a field labelled s.f in the section labelled s.
FieldItems ==
  LET IdF      == Field(<<"f">>, <<"n">>, <<"v", "1">>)
      LabelF   == Field(<<"m">>, <<"F">>, <<"v", "2">>)
      Dotted   == Field(<<"d">>, <<"s", ".", "f">>, <<"v", "3">>)
      InLabelS == FieldIn(<<"e">>, <<"f">>, <<"v", "4">>, Section(<<"q">>, <<"s">>))
      InIdS    == FieldIn(<<"g">>, <<"f">>, <<"v", "5">>, Section(<<"s">>, <<"r">>))
      UrlField == Field(<<"w">>, <<"u", "r", "l">>, <<"v", "6">>)
      Dollar   == Field(<<"p">>, <<"f">>, <<"a", "$", "&", "b">>)
      Other    == Field(<<"o">>, <<"n">>, <<"v", "7">>)
      Quoted   == Field(<<"d">>, <<"s", ".", "f">>,
                        <<"{{", " ", "op://", "A", "/", "X", "/", "f", " ", "}}">>)
      Plain    == Field(<<"p">>, <<"f">>, <<"v", "8">>)
      InDotted == FieldIn(<<"j">>, <<"f">>, <<"v", "9">>,
                          Section(<<"q">>, <<"s", ".", "s">>))
      DottedIn == FieldIn(<<"k">>, <<"s", ".", "f">>, <<"v", "0">>,
                          Section(<<"q">>, <<"s">>))
      H1       == <<"h", "1">>
      H2       == <<"h", "2">>
  IN { ItemOf(<<IdF, LabelF>>, <<>>),
       ItemOf(<<LabelF, IdF>>, <<>>),
       ItemOf(<<Dotted, InLabelS>>, <<>>),
       ItemOf(<<InLabelS, Dotted>>, <<>>),
       ItemOf(<<InLabelS, InIdS>>, <<>>),
       ItemOf(<<InIdS, InLabelS>>, <<>>),
       ItemOf(<<Other>>, <<Url(H1, FALSE), Url(H2, TRUE)>>),
       ItemOf(<<Other>>, <<Url(H1, FALSE), Url(H2, FALSE)>>),
       ItemOf(<<Other>>, <<Url(H1, FALSE), Url(<<>>, TRUE)>>),
       ItemOf(<<Other>>, <<>>),
       ItemOf(<<>>, <<Url(H1, FALSE), Url(H2, TRUE)>>),
       ItemOf(<<UrlField>>, <<Url(H1, TRUE)>>),
       ItemOf(<<Dollar>>, <<>>),
       ItemOf(<<Quoted, Plain>>, <<>>),
       ItemOf(<<InDotted>>, <<>>),
       ItemOf(<<DottedIn>>, <<>>) }

FieldBackends == { {it} : it \in FieldItems }

FieldSettings ==
  optional("CYOP_SESSION", { sessionRef(S_A, S_X, <<"u", "1">>) })

FieldEntryValues ==
  { StrV(<<"op://", "A", "/", "X", "/", "f">>),
    StrV(<<"op://", "A", "/", "X", "/", "s", ".", "f">>),
    StrV(<<"op://", "A", "/", "X", "/", "s", ".", "s", ".", "f">>),
    StrV(<<"op://", "A", "/", "X", "/", ".", "f">>),
    StrV(<<"op://", "A", "/", "X", "/", "u", "r", "l">>),
    StrV(<<"op://", "A", "/", "X", "/", "U", "R", "L">>),
    StrV(<<"op://", "A", "/", "x", "/", "w", "e", "b", "s", "i", "t", "e">>),
    StrV(<<"{{", "op://", "A", "/", "X", "/", "u", "r", "l", "}}">>),
    StrV(<<"{{", "op://", "A", "/", "X", "/", "f", "}}", "-",
           "{{", "op://", "A", "/", "X", "/", "f", "}}">>),
    StrV(<<"{{", "op://", "A", "/", "X", "/", "s", ".", "f", "}}", "-",
           "{{", " ", "op://", "A", "/", "X", "/", "f", " ", "}}">>),
    NumV(1) }

FieldEnvs ==
  { scope \o Keyed(values) :
      scope \in FieldSettings, values \in SeqsUpTo(FieldEntryValues, MaxEntries) }

\* ------------------------------------------------------------------------
\* State
\* ------------------------------------------------------------------------
VARIABLES
  backend,               \* the items the backend holds
  procEnv,               \* process.env
  pluginOptions,         \* pluginOptions.failOnError: "omitted", "true", "false"
  failOnError,           \* this.failOnError
  hasEnv,                \* whether config.env exists
  inputEnv,              \* config.env as the caller passed it
  env,                   \* the env object shared by config, this.cypressConfig
                         \* and updatedConfig (the copies are shallow)
  itemCache,             \* this.itemCache
  resolvedSecretsCache,  \* this.resolvedSecretsCache
  pc,                    \* "validate", "entries", "returned", "raised"
  idx,                   \* position of the for-in loop of resolve()
  outcome,               \* how the pass ended
  raised,                \* the error the pass raised
  reqLog,                \* the calls of getAndFindSecretValue so far
  entryLog,              \* per entry worked on: its references and how many resolved
  warnings,              \* the failures logged instead of raised
  passes,                \* the calls of resolve() on this object so far
  probe,                 \* a call of parseOpUri or parseVaultEnvironment on its
                         \* own: the arguments and the value returned
  vaultList              \* what vault.list() of the backend answers: the vaults,
                         \* or a failure

vars == << backend, procEnv, pluginOptions, failOnError, hasEnv, inputEnv, env,
           itemCache, resolvedSecretsCache, pc, idx, outcome, raised, reqLog,
           entryLog, warnings, passes, probe, vaultList >>

\* What the steps of one pass leave alone.
inputs == << backend, procEnv, pluginOptions, failOnError, hasEnv, inputEnv,
             passes, probe, vaultList >>

NoProbe == [fn |-> "none"]

\* vault.list() answers with the three vaults of the backend.
AllVaultsListed == [thrown |-> FALSE, vaults |-> [i \in 1..3 |-> VaultAt(i)]]

\* OpResolver.constructor (src/src/OpResolver.ts:67-84), for inputs drawn from
\* the sets given.
InitWith(backends, procEnvs, options, envs, lists) ==
  /\ backend \in backends
  /\ procEnv \in procEnvs
  /\ pluginOptions \in options
  /\ failOnError = IF pluginOptions = "omitted" THEN DEFAULT_FAIL_ON_ERROR
                   ELSE pluginOptions = "true"
  /\ hasEnv \in BOOLEAN
  /\ inputEnv \in IF hasEnv THEN envs ELSE { <<>> }
  /\ env = inputEnv
  /\ itemCache = <<>>
  /\ resolvedSecretsCache = {}
  /\ pc = "validate"
  /\ idx = 0
  /\ outcome = "running"
  /\ raised = NoError
  /\ reqLog = <<>>
  /\ entryLog = <<>>
  /\ warnings = <<>>
  /\ passes = 1
  /\ probe = NoProbe
  /\ vaultList \in lists

Init ==
  InitWith(Backends, ProcEnvs, {"omitted", "true", "false"}, Envs, {AllVaultsListed})

\* ------------------------------------------------------------------------
\* OpResolver.resolve (src/src/OpResolver.ts:592-687)
\* ------------------------------------------------------------------------
\* A mutation of ValidateCliFails: under fail-fast the validation error is
\* raised instead of logged.
ValidateCliFailsRaises ==
  /\ pc = "validate"
  /\ pc' = IF failOnError THEN "raised" ELSE "returned"
  /\ outcome' = "validationFailed"
  /\ raised' = IF failOnError THEN [type |-> "cliValidation"] ELSE raised
  /\ UNCHANGED << inputs, env, itemCache, resolvedSecretsCache, idx, reqLog,
                  entryLog, warnings >>

\* Lines 597-605: validateCli() throws; this.cypressConfig is returned.
ValidateCliFails ==
  /\ pc = "validate"
  /\ pc' = "returned"
  /\ outcome' = "validationFailed"
  /\ UNCHANGED << inputs, env, itemCache, resolvedSecretsCache, idx, raised, reqLog,
                  entryLog, warnings >>

\* Lines 607-611: the CLI is there, the configuration has no env.
NoEnvironment ==
  /\ pc = "validate"
  /\ ~hasEnv
  /\ pc' = "returned"
  /\ outcome' = "noEnv"
  /\ UNCHANGED << inputs, env, itemCache, resolvedSecretsCache, idx, raised, reqLog,
                  entryLog, warnings >>

\* Lines 597-599, 613-615: the CLI is there, the loop over env starts.
ValidateCliSucceeds ==
  /\ pc = "validate"
  /\ hasEnv
  /\ pc' = "entries"
  /\ idx' = 1
  /\ UNCHANGED << inputs, env, itemCache, resolvedSecretsCache, outcome, raised,
                  reqLog, entryLog, warnings >>

AtEntry == pc = "entries" /\ idx <= Len(env)

\* A mutation of isSessionKey: only CYOP_SESSION is a session key.
isSessionKeyCyopOnly(key) == key = "CYOP_SESSION"

isSessionKey(key) == key = "C8Y_SESSION" \/ key = "CYOP_SESSION"

isDirect(v)   == v.t = "str" /\ startsWith(trim(v.s), OP_PROTOCOL_PREFIX)
isTemplate(v) == v.t = "str" /\ ~startsWith(trim(v.s), OP_PROTOCOL_PREFIX)
                 /\ hasPlaceholder(trim(v.s))

\* Lines 617-620
SkipSessionEntry ==
  /\ AtEntry
  /\ isSessionKey(env[idx].key)
  /\ idx' = idx + 1
  /\ UNCHANGED << inputs, env, itemCache, resolvedSecretsCache, pc, outcome, raised,
                  reqLog, entryLog, warnings >>

\* Lines 632-664 for the outcome r of resolveOpUri.
DirectEntryDone(opPath, r) ==
  /\ itemCache' = r.res.cache
  /\ entryLog' = Append(entryLog,
                   [ entry |-> idx, kind |-> "direct", refs |-> 1,
                     resolved |-> IF r.res.out.kind = "value" THEN 1 ELSE 0 ])
  /\ reqLog' = IF r.id.ok
               THEN Append(reqLog, Request(idx, r.id, itemCache, r.res))
               ELSE reqLog
  /\ IF r.res.out.kind = "throw"
     THEN \* failOnError is set: the catch block of line 646 throws again
          /\ pc' = "raised"
          /\ outcome' = "raised"
          /\ raised' = IF r.res.out.error.type = "cannotResolvePath"
                       THEN [ type |-> "cannotResolveEnvVar",
                              key |-> env[idx].key, path |-> opPath ]
                       ELSE r.res.out.error
          /\ UNCHANGED << env, idx, warnings >>
     ELSE /\ env' = IF r.res.out.kind = "value"
                    THEN [env EXCEPT ![idx].value = StrV(r.res.out.value)]
                    ELSE env
          /\ warnings' = IF r.res.out.kind = "undefined"
                         THEN Append(warnings,
                                [entry |-> idx, error |-> r.res.out.error])
                         ELSE warnings
          /\ idx' = idx + 1
          /\ UNCHANGED << pc, outcome, raised >>

\* Lines 626-664: the value is one reference.
ResolveDirectEntry ==
  /\ AtEntry
  /\ ~isSessionKey(env[idx].key)
  /\ isDirect(env[idx].value)
  /\ DirectEntryDone(trim(env[idx].value.s),
       resolveOpUri(backend, failOnError, env, procEnv, itemCache,
                    trim(env[idx].value.s)))
  /\ UNCHANGED << inputs, resolvedSecretsCache >>

\* Lines 669-680 for the outcome st of replacePlaceholders.
PlaceholderEntryDone(reps, st) ==
  /\ itemCache' = st.cache
  /\ entryLog' = Append(entryLog,
                   [ entry |-> idx, kind |-> "template", refs |-> Len(reps),
                     resolved |-> st.replaced ])
  /\ resolvedSecretsCache' = st.rcache
  /\ reqLog' = reqLog \o st.reqs
  /\ warnings' = warnings \o [i \in 1..Len(st.warnings) |->
                                [entry |-> idx, error |-> st.warnings[i]]]
  /\ IF st.thrown # NoError
     THEN /\ pc' = "raised"
          /\ outcome' = "raised"
          /\ raised' = st.thrown
          /\ UNCHANGED << env, idx >>
     ELSE /\ env' = [env EXCEPT ![idx].value = StrV(st.result)]
          /\ idx' = idx + 1
          /\ UNCHANGED << pc, outcome, raised >>

\* Lines 665-680: the value holds placeholders.
ResolvePlaceholderEntry ==
  /\ AtEntry
  /\ ~isSessionKey(env[idx].key)
  /\ isTemplate(env[idx].value)
  /\ PlaceholderEntryDone(
       execAll(trim(env[idx].value.s), 1),
       replacePlaceholders(backend, failOnError, env, procEnv, idx, itemCache,
                           resolvedSecretsCache, trim(env[idx].value.s)))
  /\ UNCHANGED inputs

\* A mutation of LeaveEntry: the trimmed string is written back.
LeaveEntryTrimmed ==
  /\ AtEntry
  /\ ~isSessionKey(env[idx].key)
  /\ ~isDirect(env[idx].value)
  /\ ~isTemplate(env[idx].value)
  /\ idx' = idx + 1
  /\ env' = IF env[idx].value.t = "str"
            THEN [env EXCEPT ![idx].value = StrV(trim(env[idx].value.s))]
            ELSE env
  /\ UNCHANGED << inputs, itemCache, resolvedSecretsCache, pc, outcome, raised,
                  reqLog, entryLog, warnings >>

\* Lines 624, 626, 665: not a string, or a string without reference.
LeaveEntry ==
  /\ AtEntry
  /\ ~isSessionKey(env[idx].key)
  /\ ~isDirect(env[idx].value)
  /\ ~isTemplate(env[idx].value)
  /\ idx' = idx + 1
  /\ UNCHANGED << inputs, env, itemCache, resolvedSecretsCache, pc, outcome, raised,
                  reqLog, entryLog, warnings >>

\* Lines 685-686: the loop is over, updatedConfig is returned.
Finish ==
  /\ pc = "entries"
  /\ idx > Len(env)
  /\ pc' = "returned"
  /\ outcome' = "completed"
  /\ UNCHANGED << inputs, env, itemCache, resolvedSecretsCache, idx, raised, reqLog,
                  entryLog, warnings >>

Next ==
  \/ ValidateCliFails
  \/ NoEnvironment
  \/ ValidateCliSucceeds
  \/ SkipSessionEntry
  \/ ResolveDirectEntry
  \/ ResolvePlaceholderEntry
  \/ LeaveEntry
  \/ Finish

Spec == Init /\ [][Next]_vars

\* The same pass for the inputs that exercise the scope settings.
InitScope ==
  InitWith(ScopeBackends, ScopeProcEnvs, {"omitted", "false"}, ScopeEnvs,
           {AllVaultsListed})

SpecScope == InitScope /\ [][Next]_vars

\* The same pass for the inputs that exercise the field matcher and the
\* substitution.
InitField ==
  InitWith(FieldBackends, ProcEnvs, {"omitted", "true", "false"}, FieldEnvs,
           {AllVaultsListed})

SpecField == InitField /\ [][Next]_vars

\* The same pass where the listing of the vaults fails, or lists a vault
\* without name and id, and where no vault is configured or a session
\* reference gives one.
SpecDiscovery ==
  InitWith(Backends, ProcEnvs, {"omitted", "true", "false"},
           { scope \o Keyed(values) :
               scope \in { <<>>,
                           << [ key |-> "CYOP_SESSION",
                                value |-> StrV(<<"op://", "B", "/", "X">>) ] >> },
               values \in SeqsUpTo(EntryValues, MaxEntries) },
           { AllVaultsListed,
             [thrown |-> TRUE, vaults |-> <<>>],
             [thrown |-> FALSE, vaults |-> << [id |-> <<" ">>, name |-> <<>>] >>] })
  /\ [][Next]_vars

\* resolve() is called again on the same object (lines 592-595): the fields
\* of the object, the caches among them, are as the pass before left them,
\* and so is the env object that config, this.cypressConfig and
\* updatedConfig share.
ResolveAgain ==
  /\ pc \in {"returned", "raised"}
  /\ passes < MaxPasses
  /\ passes' = passes + 1
  /\ pc' = "validate"
  /\ idx' = 0
  /\ outcome' = "running"
  /\ raised' = NoError
  /\ UNCHANGED << backend, procEnv, pluginOptions, failOnError, hasEnv, inputEnv,
                  probe, vaultList, env, itemCache, resolvedSecretsCache, reqLog,
                  entryLog, warnings >>

\* Passes one after the other on one resolver object.
SpecAgain == Init /\ [][Next \/ ResolveAgain]_vars

\* ------------------------------------------------------------------------
\* parseOpUri and parseVaultEnvironment on their own
\* ------------------------------------------------------------------------
\* The string handed to parseOpUri: what stands before the path, the
\* segments joined by '/', and what follows the path.
uriArgument(p) == p.prefix \o join(p.segments, "/") \o p.query

\* The vault setting handed to parseVaultEnvironment: the names as a list, as
\* one comma-separated string, or no setting.
vaultArgument(p) ==
  IF p.form = "list" THEN ArrV(p.names)
  ELSE IF p.form = "string" THEN StrV(join(p.names, ","))
  ELSE UndefV

\* No resolver is at work; one call of parseOpUri or of
\* parseVaultEnvironment is about to be made.
InitPure ==
  /\ backend = {}
  /\ procEnv = NoProcEnv
  /\ pluginOptions = "omitted"
  /\ failOnError = DEFAULT_FAIL_ON_ERROR
  /\ hasEnv = FALSE
  /\ inputEnv = <<>>
  /\ env = <<>>
  /\ itemCache = <<>>
  /\ resolvedSecretsCache = {}
  /\ pc = "none"
  /\ idx = 0
  /\ outcome = "none"
  /\ raised = NoError
  /\ reqLog = <<>>
  /\ entryLog = <<>>
  /\ warnings = <<>>
  /\ passes = 0
  /\ vaultList = AllVaultsListed
  /\ probe \in
       { [ fn |-> "parseOpUri", prefix |-> x, segments |-> g, query |-> q,
           isSession |-> b, returned |-> FALSE ] :
           x \in { <<>>, <<"op://">>, <<" ", "op://">>, <<"a", "/">> },
           g \in SeqsUpTo({ <<>>, <<" ">>, <<"a">>, <<" ", "b">>, <<"c", " ">> },
                          MaxSegments),
           q \in { <<>>, <<"?", "target_url=", "u">>, <<"?", "x", "/", "y">> },
           b \in BOOLEAN }
       \cup
       { [ fn |-> "parseVaultEnvironment", names |-> n, form |-> f,
           returned |-> FALSE ] :
           n \in SeqsUpTo({ <<>>, <<" ">>, <<"A">>, <<" ", "B">>, <<"A", " ">> },
                          MaxVaults),
           f \in { "list", "string", "absent" } }
       \cup
       { [ fn |-> "withSession", prefix |-> x, segments |-> g, query |-> <<>>,
           vaultEnv0 |-> v, itemEnv0 |-> i, returned |-> FALSE ] :
           x \in { <<>>, <<"op://">> },
           g \in SeqsUpTo({ <<>>, <<"a">>, <<" ", "b">> }, MaxSegments),
           v \in { UndefV, StrV(<<>>), StrV(<<"V">>) },
           i \in { UndefV, StrV(<<>>), StrV(<<"I">>) } }

\* parseOpUri(opUri, isSession) returns (src/unnamed/part_002:56-127).
ApplyParseOpUri ==
  /\ probe.fn = "parseOpUri"
  /\ ~probe.returned
  /\ probe' = [ fn |-> "parseOpUri", prefix |-> probe.prefix,
                segments |-> probe.segments, query |-> probe.query,
                isSession |-> probe.isSession, returned |-> TRUE,
                value |-> parseOpUri(uriArgument(probe), probe.isSession) ]
  /\ UNCHANGED << backend, procEnv, pluginOptions, failOnError, hasEnv, inputEnv,
                  env, itemCache, resolvedSecretsCache, pc, idx, outcome, raised,
                  reqLog, entryLog, warnings, passes, vaultList >>

\* parseVaultEnvironment(vaultEnv) returns (src/src/OpResolver.ts:91-112).
ApplyParseVaultEnvironment ==
  /\ probe.fn = "parseVaultEnvironment"
  /\ ~probe.returned
  /\ probe' = [ fn |-> "parseVaultEnvironment", names |-> probe.names,
                form |-> probe.form, returned |-> TRUE,
                value |-> parseVaultEnvironment(vaultArgument(probe)) ]
  /\ UNCHANGED << backend, procEnv, pluginOptions, failOnError, hasEnv, inputEnv,
                  env, itemCache, resolvedSecretsCache, pc, idx, outcome, raised,
                  reqLog, entryLog, warnings, passes, vaultList >>

\* The session reference is applied to the vault setting and the item
\* setting (src/src/OpResolver.ts:131-145).
ApplyWithSession ==
  /\ probe.fn = "withSession"
  /\ ~probe.returned
  /\ probe' = [ fn |-> "withSession", prefix |-> probe.prefix,
                segments |-> probe.segments, query |-> probe.query,
                vaultEnv0 |-> probe.vaultEnv0, itemEnv0 |-> probe.itemEnv0,
                returned |-> TRUE,
                value |-> withSession(probe.vaultEnv0, probe.itemEnv0,
                                      StrV(uriArgument(probe))) ]
  /\ UNCHANGED << backend, procEnv, pluginOptions, failOnError, hasEnv, inputEnv,
                  env, itemCache, resolvedSecretsCache, pc, idx, outcome, raised,
                  reqLog, entryLog, warnings, passes, vaultList >>

SpecPure ==
  InitPure /\ [][ApplyParseOpUri \/ ApplyParseVaultEnvironment \/ ApplyWithSession]_vars

\* ------------------------------------------------------------------------
\* Properties.  They are stated on the record of the calls of
\* getAndFindSecretValue (reqLog) and of the entries worked on (entryLog).
\* ------------------------------------------------------------------------
RECURSIVE fetchesOf(_)
fetchesOf(log) == IF log = <<>> THEN <<>> ELSE log[1].fetches \o fetchesOf(Tail(log))

\* The fetches of the pass so far, in the order they were issued.
AllFetches == fetchesOf(reqLog)

Requests == { reqLog[n] : n \in 1..Len(reqLog) }

\* What the backend answers for request r at position i of its candidates.
answerAt(r, i) == itemGet(backend, r.id.itemName, r.id.vaultNames[i])
failsAt(r, i)  == "thrown" \in DOMAIN answerAt(r, i)
holdsAt(r, i)  == "fields" \in DOMAIN answerAt(r, i)
fieldAt(r, i)  == findFieldValue(answerAt(r, i), r.id)

\* The fetches of the first n candidate positions of request r, in order.
fetchesUpTo(r, n) ==
  [i \in 1..n |-> [item |-> r.id.itemName, vault |-> r.id.vaultNames[i]]]

\* Two names refer to the same vault: the same string up to case, or the id
\* and the name of one vault.
sameVault(v1, v2) ==
  \/ toLowerCase(v1) = toLowerCase(v2)
  \/ \E v \in VaultRecords : refersToVault(v1, v) /\ refersToVault(v2, v)

\* Two identifiers refer to the same item of the vault: the same string up to
\* case, or the id and the title of one stored item.
sameItemIn(vaultName, i1, i2) ==
  \/ toLowerCase(i1) = toLowerCase(i2)
  \/ \E r \in backend : /\ refersToVault(vaultName, r.item.vault)
                        /\ refersToItem(i1, r.item)
                        /\ refersToItem(i2, r.item)

samePair(f1, f2) ==
  sameVault(f1.vault, f2.vault) /\ sameItemIn(f1.vault, f1.item, f2.item)

\* C1: within one pass at most one fetch is issued per (vault, item) pair,
\* where two pairs are the same when vault and item agree by id or by name
\* without regard to case, whether the first fetch succeeded or failed.
C1_OneFetchPerPair ==
  \A m, n \in 1..Len(AllFetches) :
    m # n => ~samePair(AllFetches[m], AllFetches[n])

distinctVaults(vaultNames) ==
  \A i, j \in 1..Len(vaultNames) :
    i # j => ~sameVault(vaultNames[i], vaultNames[j])

\* Three distinct candidate vaults, an empty cache, and the item (with the
\* field asked for) in the second vault only.
C2_Case(r) ==
  /\ Len(r.id.vaultNames) = 3
  /\ distinctVaults(r.id.vaultNames)
  /\ r.cacheBefore = <<>>
  /\ failsAt(r, 1)
  /\ holdsAt(r, 2)
  /\ fieldAt(r, 2) # Undefined
  /\ failsAt(r, 3)

\* C2: with the candidate vaults [A, B, C], an empty cache and the item
\* present only in B, the lookup fetches (item, A) and then (item, B), in
\* that order, returns the field value of B's item, and never fetches
\* (item, C).
C2_SecondVaultServes ==
  \A r \in Requests :
    C2_Case(r) => /\ r.fetches = fetchesUpTo(r, 2)
                  /\ r.out = Value(fieldAt(r, 2))

C2_Witness ==
  \E r \in Requests : C2_Case(r) /\ Len(r.fetches) = 2 /\ r.out.kind = "value"

isPartial(r)  == parseOpUri(r.id.originalPath, FALSE).vault = Undefined
isFullPath(r) == parseOpUri(r.id.originalPath, FALSE).vault # Undefined
ownVault(r)   == parseOpUri(r.id.originalPath, FALSE).vault

\* The candidate positions of request r whose vault holds the item.
containing(r) == { i \in 1..Len(r.id.vaultNames) : holdsAt(r, i) }
earliest(r)   == CHOOSE i \in containing(r) : \A j \in containing(r) : i <= j

\* C3: a reference without vault segment whose item is in more than one
\* candidate vault gets the value of the earliest listed candidate vault that
\* holds the item (here: and holds the field), whatever was resolved before
\* it in the pass.
C3_EarliestCandidateServes ==
  \A r \in Requests :
    ( /\ isPartial(r)
      /\ r.out.kind = "value"
      /\ containing(r) # {}
      /\ fieldAt(r, earliest(r)) # Undefined )
    => r.out.value = fieldAt(r, earliest(r))

\* The cache entry belongs to the vault named.
entryOfVault(entry, vaultName) ==
  IF isErrorEntry(entry) THEN entry.vaultName = vaultName
  ELSE refersToVault(vaultName, entry.vault)

\* C4: a reference with all three segments is looked up in exactly the vault
\* it names: its candidates are that vault alone, every fetch goes to that
\* vault, and a cache entry that serves it belongs to that vault.
C4_FullPathUsesOwnVault ==
  \A r \in Requests :
    isFullPath(r) =>
      /\ r.id.vaultNames = <<ownVault(r)>>
      /\ \A k \in 1..Len(r.fetches) : r.fetches[k].vault = ownVault(r)
      /\ r.hitEntry # NoEntry => entryOfVault(r.hitEntry, ownVault(r))

\* A reference with three segments was fetched although CYOP_VAULT names
\* other vaults and the cache held the item from one of them.
C4_Witness ==
  \E r \in Requests :
    /\ isFullPath(r)
    /\ r.fetches # <<>>
    /\ \E i \in 1..Len(env) :
         env[i].key = "CYOP_VAULT"
         /\ \E v \in 1..Len(parseVaultEnvironment(env[i].value)) :
              ~sameVault(parseVaultEnvironment(env[i].value)[v], ownVault(r))
    /\ \E k \in 1..Len(r.cacheBefore) :
         /\ ~isErrorEntry(r.cacheBefore[k])
         /\ refersToItem(r.id.itemName, r.cacheBefore[k])
         /\ ~refersToVault(ownVault(r), r.cacheBefore[k].vault)

\* C5: when a fetch returns the item and the item lacks the field, the
\* lookup ends there with a field-not-found failure and fetches no later
\* candidate vault, under both failure policies.
C5_FieldNotFoundEndsLookup ==
  \A r \in Requests :
    \A k \in 1..Len(r.fetches) :
      (holdsAt(r, k) /\ fieldAt(r, k) = Undefined)
      => /\ Len(r.fetches) = k
         /\ r.out.kind # "value"
         /\ r.out.error.type = "fieldNotFound"

\* No cache entry serves the request and the backend fails for every
\* candidate position.
C6_Case(r) ==
  /\ r.hitEntry = NoEntry
  /\ \A i \in 1..Len(r.id.vaultNames) : failsAt(r, i)

\* C6: when every fetch fails, each list position is fetched once, in list
\* order, and the lookup fails only after the last position; also when a
\* vault name is in the list more than once.
C6_EveryPositionFetched ==
  \A r \in Requests :
    C6_Case(r) => /\ r.fetches = fetchesUpTo(r, Len(r.id.vaultNames))
                  /\ r.out.kind # "value"

isReference(v) == isDirect(v) \/ isTemplate(v)

worked(i) == \E n \in 1..Len(entryLog) : entryLog[n].entry = i

warnedFor(i, error) ==
  \E w \in 1..Len(warnings) : warnings[w] = [entry |-> i, error |-> error]

\* C7: when failures are only logged and the CLI validation succeeded, the
\* pass never raises: every failure of a reference is a warning, every entry
\* is visited, and the pass returns the map.
C7_LenientNeverRaises ==
  ~failOnError =>
    /\ pc # "raised"
    /\ outcome # "raised"
    /\ raised = NoError
    /\ \A r \in Requests :
         /\ r.out.kind # "throw"
         /\ r.out.kind = "undefined" => warnedFor(r.entry, r.out.error)
    /\ \A n \in 1..Len(entryLog) :
         (entryLog[n].kind = "direct" /\ entryLog[n].resolved = 0)
         => \E w \in 1..Len(warnings) : warnings[w].entry = entryLog[n].entry
    /\ outcome = "completed" =>
         /\ pc = "returned"
         /\ idx = Len(env) + 1
         /\ \A i \in 1..Len(env) :
              (~isSessionKey(env[i].key) /\ isReference(inputEnv[i].value))
              => worked(i)

\* The pass is over with a warning for one entry and a later entry worked on.
C7_Witness ==
  /\ ~failOnError
  /\ outcome = "completed"
  /\ \E w \in 1..Len(warnings) :
       \E n \in 1..Len(entryLog) : entryLog[n].entry > warnings[w].entry

\* C8: after a pass that only logs failures, a direct-reference entry that
\* was not resolved holds exactly its input value, and an entry with
\* placeholders of which none was resolved holds exactly its input value,
\* the whitespace around it included.
C8_UnresolvedEntryKeepsInput ==
  (~failOnError /\ outcome = "completed") =>
    \A n \in 1..Len(entryLog) :
      entryLog[n].resolved = 0
      => env[entryLog[n].entry] = inputEnv[entryLog[n].entry]

\* C9: when failures are raised (the default when the option is omitted),
\* the pass raises at the first entry with a reference that cannot be
\* resolved: every entry worked on before it was resolved in full, and no
\* entry after it is worked on, fetched for or changed.
C9_FailFastStopsAtFirstFailure ==
  /\ pluginOptions = "omitted" => failOnError
  /\ failOnError =>
       /\ \A r \in Requests :
            /\ r.out.kind # "undefined"
            /\ r.entry <= idx
            /\ r.out.kind = "throw" => (pc = "raised" /\ r.entry = idx)
       /\ \A n \in 1..Len(entryLog) :
            /\ entryLog[n].entry <= idx
            /\ entryLog[n].resolved < entryLog[n].refs
               => (pc = "raised" /\ n = Len(entryLog) /\ entryLog[n].entry = idx)
       /\ pc = "raised" =>
            /\ entryLog # <<>>
            /\ entryLog[Len(entryLog)].entry = idx
            /\ entryLog[Len(entryLog)].resolved < entryLog[Len(entryLog)].refs
            /\ \A i \in idx..Len(env) : env[i] = inputEnv[i]

\* The option was omitted and the pass raised with a reference entry after
\* the failing one.
C9_Witness ==
  /\ pluginOptions = "omitted"
  /\ pc = "raised"
  /\ idx < Len(env)
  /\ isReference(env[idx + 1].value)

\* C10: when the CLI validation fails, the pass returns a map equal to the
\* input map, fetches nothing, and does not raise, whatever the failure
\* policy.  (OpResolver.ts lists no vaults anywhere.)
C10_ValidationFailureReturnsInput ==
  outcome = "validationFailed" =>
    /\ pc = "returned"
    /\ raised = NoError
    /\ env = inputEnv
    /\ reqLog = <<>>
    /\ AllFetches = <<>>
    /\ itemCache = <<>>

\* The validation failed under fail-fast for a map that holds a reference.
C10_Witness ==
  /\ outcome = "validationFailed"
  /\ failOnError
  /\ \E i \in 1..Len(env) : isDirect(env[i].value)

\* ------------------------------------------------------------------------
\* Properties of scope resolution
\* ------------------------------------------------------------------------
\* The session setting a pass reads, and what it parses to as a session.
sessionSetting ==
  nullish(envGet(inputEnv, "CYOP_SESSION"),
    nullish(envGet(inputEnv, "C8Y_SESSION"),
      nullish(procEnv["CYOP_SESSION"], procEnv["C8Y_SESSION"])))

sessionParsed ==
  IF sessionSetting.t = "str" THEN parseOpUri(sessionSetting.s, TRUE) ELSE NoUri

sessionComplete ==
  /\ sessionParsed.valid
  /\ sessionParsed.vault # Undefined
  /\ sessionParsed.item # Undefined

\* The vault and item settings as configured, the session left aside.
configuredVault == nullish(envGet(inputEnv, "CYOP_VAULT"), procEnv["CYOP_VAULT"])
configuredItem  == nullish(envGet(inputEnv, "CYOP_ITEM"), procEnv["CYOP_ITEM"])

namesItem(r) == parseOpUri(r.id.originalPath, FALSE).item # Undefined

\* C11: when the session reference yields a vault and an item, a partial
\* reference has the session vault as its only candidate and the session
\* item as its default item, also when CYOP_VAULT and CYOP_ITEM are set;
\* when it does not yield both, the configured CYOP_VAULT and CYOP_ITEM are
\* used unchanged.
C11_CompleteSessionOverrides ==
  \A r \in Requests :
    isPartial(r) =>
      IF sessionComplete
      THEN /\ r.id.vaultNames = <<sessionParsed.vault>>
           /\ ~namesItem(r) => r.id.itemName = sessionParsed.item
      ELSE /\ r.id.vaultNames = parseVaultEnvironment(configuredVault)
           /\ ~namesItem(r) => r.id.itemName = configuredItem.s

\* A reference without vault and item was looked up under a complete session
\* although the configuration map sets another vault.
C11_Witness ==
  \E r \in Requests :
    /\ isPartial(r)
    /\ ~namesItem(r)
    /\ sessionComplete
    /\ envGet(inputEnv, "CYOP_VAULT") = StrV(S_A)
    /\ envGet(inputEnv, "CYOP_ITEM") = StrV(S_X)
    /\ r.id.vaultNames = <<S_B>>
    /\ r.fetches # <<>>

\* C12: for the vault setting and for the item setting, the value of the
\* configuration map is the one used when the map and the process
\* environment both have one; the process value is used only when the map
\* has none.  (Stated where no complete session reference overrides both.)
C12_ConfigurationMapFirst ==
  \A r \in Requests :
    (isPartial(r) /\ ~sessionComplete) =>
      /\ r.id.vaultNames =
           parseVaultEnvironment(IF envGet(inputEnv, "CYOP_VAULT") # UndefV
                                 THEN envGet(inputEnv, "CYOP_VAULT")
                                 ELSE procEnv["CYOP_VAULT"])
      /\ ~namesItem(r) =>
           r.id.itemName = IF envGet(inputEnv, "CYOP_ITEM") # UndefV
                           THEN envGet(inputEnv, "CYOP_ITEM").s
                           ELSE procEnv["CYOP_ITEM"].s

\* Both the map and the process environment set the vault and the item, to
\* different values, and a reference was looked up with the map's values.
C12_Witness ==
  \E r \in Requests :
    /\ isPartial(r)
    /\ ~namesItem(r)
    /\ ~sessionComplete
    /\ envGet(inputEnv, "CYOP_VAULT") = StrV(S_A)
    /\ procEnv["CYOP_VAULT"] = StrV(S_C)
    /\ envGet(inputEnv, "CYOP_ITEM") = StrV(S_X)
    /\ procEnv["CYOP_ITEM"] = StrV(S_Y)
    /\ r.id.vaultNames = <<S_A>>
    /\ r.id.itemName = S_X

\* The map without the entries of the keys, and the process environment
\* without its session variables.
withoutKeys(e, keys) == SelectSeq(e, LAMBDA x : x.key \notin keys)

procEnvWithoutSessions ==
  [procEnv EXCEPT !["CYOP_SESSION"] = UndefV, !["C8Y_SESSION"] = UndefV]

ownUrl(r) == parseOpUri(r.id.originalPath, FALSE).url

sessionUrlSetting == IF sessionParsed.valid THEN sessionParsed.url ELSE Undefined

\* C15: when the session reference and the reference resolved both carry a
\* target_url, the target URL of the identifier is the one of the reference's
\* own query string; the session's is used only when the reference has none.
C15_OwnTargetUrlFirst ==
  \A r \in Requests :
    r.id.target_url = IF ownUrl(r) # Undefined THEN ownUrl(r) ELSE sessionUrlSetting

\* ------------------------------------------------------------------------
\* Properties of the field matcher
\* ------------------------------------------------------------------------
\* The request was answered from an item, fetched or cached.
usesItem(r) ==
  IF r.hitEntry # NoEntry THEN ~isErrorEntry(r.hitEntry)
  ELSE r.fetches # <<>> /\ holdsAt(r, Len(r.fetches))

usedItem(r) ==
  IF r.hitEntry # NoEntry THEN r.hitEntry ELSE answerAt(r, Len(r.fetches))

\* The value the request returned; Undefined when it failed.
outValue(r) == IF r.out.kind = "value" THEN r.out.value ELSE Undefined

specifierOf(r) == toLowerCase(r.id.fieldSpecifier)

inTemplate(r) ==
  \E n \in 1..Len(entryLog) :
    entryLog[n].entry = r.entry /\ entryLog[n].kind = "template"

\* C14: when the session reference carries a target_url, every resolution of
\* the specifier url or website against an item, fetched or cached, returns
\* that URL, whatever fields and urls the item has, for direct references
\* and for placeholders alike.
C14_SessionTargetUrlServes ==
  \A r \in Requests :
    ( /\ usesItem(r)
      /\ sessionUrlSetting # Undefined
      /\ r.id.fieldSpecifier \in SPECIAL_URL_FIELDS )
    => r.out = Value(sessionUrlSetting)

\* Under a session with target_url, an item with a field labelled url and a
\* urls list served a direct reference from the backend and a placeholder
\* from the cache.
C14_Witness ==
  /\ sessionUrlSetting # Undefined
  /\ \E r1, r2 \in Requests :
       /\ r1.fetches # <<>>
       /\ ~inTemplate(r1)
       /\ r1.id.fieldSpecifier \in SPECIAL_URL_FIELDS
       /\ usesItem(r1)
       /\ usedItem(r1).urls # <<>>
       /\ \E i \in 1..Len(usedItem(r1).fields) :
            usedItem(r1).fields[i].label = r1.id.fieldSpecifier
       /\ inTemplate(r2)
       /\ r2.hitEntry # NoEntry
       /\ r2.id.fieldSpecifier \in SPECIAL_URL_FIELDS
       /\ r2.out = Value(sessionUrlSetting)

matchesLabel(f, spec) == truthy(f.label) /\ toLowerCase(f.label) = spec
matchesId(f, spec)    == truthy(f.id) /\ toLowerCase(f.id) = spec

\* Field i of the item is the only one whose label is the specifier, and
\* another field has the specifier as its id.
C16_Case(it, spec, i) ==
  /\ matchesLabel(it.fields[i], spec)
  /\ \A k \in 1..Len(it.fields) : matchesLabel(it.fields[k], spec) => k = i
  /\ \E j \in 1..Len(it.fields) : j # i /\ matchesId(it.fields[j], spec)

\* C16: when one field's label and another field's id both equal the
\* specifier without regard to case, the value returned is that of the field
\* matched by label, whichever of the two comes first in the item.
C16_LabelBeforeId ==
  \A r \in Requests :
    usesItem(r) =>
      \A i \in 1..Len(usedItem(r).fields) :
        C16_Case(usedItem(r), specifierOf(r), i)
        => outValue(r) = usedItem(r).fields[i].value

\* A field matched by id comes before the field matched by label, and the
\* request returned a value.
C16_Witness ==
  \E r \in Requests :
    /\ usesItem(r)
    /\ Len(usedItem(r).fields) = 2
    /\ C16_Case(usedItem(r), specifierOf(r), 2)
    /\ r.out.kind = "value"

\* The specifier holds the separator.
isDotted(spec) == \E k \in 1..Len(spec) : spec[k] = SECTION_FIELD_SEPARATOR

directlyMatched(it, spec) ==
  \E i \in 1..Len(it.fields) :
    matchesLabel(it.fields[i], spec) \/ matchesId(it.fields[i], spec)

\* The field's name (label or id) is name and its section's (label or id)
\* is sec.
inSection(f, sec, name) ==
  /\ matchesLabel(f, name) \/ matchesId(f, name)
  /\ matchesLabel(f.section, sec) \/ matchesId(f.section, sec)

\* spec read as section.field names the field f: it is cut at one of its
\* separators.
sectionNames(f, spec) ==
  \E k \in 2..(Len(spec) - 1) :
    /\ spec[k] = SECTION_FIELD_SEPARATOR
    /\ inSection(f, SubSeq(spec, 1, k - 1), SubSeq(spec, k + 1, Len(spec)))

\* C17: for a specifier holding the separator, a field whose label or id is
\* the whole specifier is returned when there is one, and only when there is
\* none is the value that of a field F inside a section S.
C17_WholeSpecifierFirst ==
  \A r \in Requests :
    (usesItem(r) /\ isDotted(specifierOf(r)) /\ r.id.target_url = Undefined) =>
      IF directlyMatched(usedItem(r), specifierOf(r))
      THEN \E i \in 1..Len(usedItem(r).fields) :
             /\ matchesLabel(usedItem(r).fields[i], specifierOf(r))
                \/ matchesId(usedItem(r).fields[i], specifierOf(r))
             /\ outValue(r) = usedItem(r).fields[i].value
             /\ ~sectionNames(usedItem(r).fields[i], specifierOf(r))
      ELSE r.out.kind = "value" =>
             \E i \in 1..Len(usedItem(r).fields) :
               /\ sectionNames(usedItem(r).fields[i], specifierOf(r))
               /\ outValue(r) = usedItem(r).fields[i].value

\* An item held a field labelled with the whole specifier after a field that
\* the specifier names as section.field, and the request returned a value.
C17_Witness ==
  \E r \in Requests :
    /\ usesItem(r)
    /\ isDotted(specifierOf(r))
    /\ r.out.kind = "value"
    /\ \E i, j \in 1..Len(usedItem(r).fields) :
         /\ i < j
         /\ sectionNames(usedItem(r).fields[i], specifierOf(r))
         /\ matchesLabel(usedItem(r).fields[j], specifierOf(r))

\* Fields i and j of the item have the same name; i sits in the section
\* labelled by the section part of the specifier, j in a section with that
\* id and another label.
C18_Case(it, spec, i, j) ==
  \E k \in 2..(Len(spec) - 1) :
    /\ spec[k] = SECTION_FIELD_SEPARATOR
    /\ \A n \in (k + 1)..Len(spec) : spec[n] # SECTION_FIELD_SEPARATOR
    /\ matchesLabel(it.fields[i], SubSeq(spec, k + 1, Len(spec)))
    /\ matchesLabel(it.fields[j], SubSeq(spec, k + 1, Len(spec)))
    /\ matchesLabel(it.fields[i].section, SubSeq(spec, 1, k - 1))
    /\ matchesId(it.fields[j].section, SubSeq(spec, 1, k - 1))
    /\ ~matchesLabel(it.fields[j].section, SubSeq(spec, 1, k - 1))

\* C18: in a section.field lookup, when one field F sits in a section
\* labelled S and another field F in a section whose id is S, the value
\* returned is that of the field in the section labelled S, whatever the
\* order of the two fields.
C18_SectionLabelBeforeId ==
  \A r \in Requests :
    (usesItem(r) /\ ~directlyMatched(usedItem(r), specifierOf(r))) =>
      \A i, j \in 1..Len(usedItem(r).fields) :
        C18_Case(usedItem(r), specifierOf(r), i, j)
        => outValue(r) = usedItem(r).fields[i].value

\* The request fell back on the item's urls: the specifier is url or
\* website, no target URL is set and no field matches.
C19_Case(r) ==
  /\ usesItem(r)
  /\ r.id.fieldSpecifier \in SPECIAL_URL_FIELDS
  /\ r.id.target_url = Undefined
  /\ ~directlyMatched(usedItem(r), specifierOf(r))

hasPrimary(urls) == \E i \in 1..Len(urls) : urls[i].primary

thePrimary(urls) ==
  urls[CHOOSE i \in 1..Len(urls) :
         urls[i].primary /\ \A j \in 1..(i - 1) : ~urls[j].primary]

found(r, v) == IF truthy(v) THEN r.out = Value(v) ELSE r.out.kind # "value"

RECURSIVE everyOccurrenceReplaced(_, _, _)
everyOccurrenceReplaced(s, p, v) ==
  IF s = <<>> THEN <<>>
  ELSE IF occursAt(s, p, 1)
  THEN v \o everyOccurrenceReplaced(SubSeq(s, Len(p) + 1, Len(s)), p, v)
  ELSE <<s[1]>> \o everyOccurrenceReplaced(Tail(s), p, v)

repeated(n) == execAll(trim(inputEnv[entryLog[n].entry].value.s), 1)[1]

\* Entry n of the record is a template holding one reference in several
\* placeholders, all of them resolved.
C20_Case(n) ==
  /\ entryLog[n].kind = "template"
  /\ entryLog[n].refs > 1
  /\ entryLog[n].resolved = entryLog[n].refs
  /\ \A k \in 1..entryLog[n].refs :
       execAll(trim(inputEnv[entryLog[n].entry].value.s), 1)[k] = repeated(n)

requestsOf(e) == { r \in Requests : r.entry = e }

\* C20: a reference that appears in several placeholders of one string is
\* resolved once, with at most one fetch, and every occurrence of its
\* placeholder in the string is replaced by the resolved value.
C20_RepeatedPlaceholder ==
  \A n \in 1..Len(entryLog) :
    C20_Case(n) =>
      /\ Cardinality({ k \in 1..Len(reqLog) : reqLog[k].entry = entryLog[n].entry }) <= 1
      /\ \A r \in requestsOf(entryLog[n].entry) : Len(r.fetches) <= 1
      /\ env[entryLog[n].entry].value =
           StrV(everyOccurrenceReplaced(
                  trim(inputEnv[entryLog[n].entry].value.s),
                  repeated(n).placeholder,
                  rcGet(resolvedSecretsCache, repeated(n).opPath)))

\* ------------------------------------------------------------------------
\* Vault discovery
\* ------------------------------------------------------------------------
\* What getAllVaults makes of the answer of vault.list(): for each vault
\* its trimmed name or else its trimmed id, in the order listed, those that
\* are empty left out; nothing when the listing fails.
RECURSIVE usableVaults(_)
usableVaults(vaults) ==
  IF vaults = <<>> THEN <<>>
  ELSE (IF trim(vaults[1].name) # <<>> THEN <<trim(vaults[1].name)>>
        ELSE IF trim(vaults[1].id) # <<>> THEN <<trim(vaults[1].id)>>
        ELSE <<>>)
       \o usableVaults(Tail(vaults))

getAllVaults == IF vaultList.thrown THEN <<>> ELSE usableVaults(vaultList.vaults)

\* No vault is configured: not in the configuration map, not in the process
\* environment, not by a session reference.
noVaultConfigured ==
  /\ configuredVault = UndefV
  /\ ~(sessionParsed.valid /\ sessionParsed.vault # Undefined)

\* The reference of entry e of the configuration map, as written.
referenceOf(e) == parseOpUri(trim(inputEnv[e].value.s), FALSE)

\* C21: when no vault is configured in the configuration map, in the process
\* environment or through a session reference, the vaults listed by the
\* backend, in the order listed, are the candidate vaults of every partial
\* reference.
C21_DiscoveredVaultsAreCandidates ==
  noVaultConfigured =>
    \A n \in 1..Len(entryLog) :
      ( /\ entryLog[n].kind = "direct"
        /\ referenceOf(entryLog[n].entry).valid
        /\ referenceOf(entryLog[n].entry).vault = Undefined
        /\ referenceOf(entryLog[n].entry).item # Undefined )
      => \E r \in Requests :
           /\ r.entry = entryLog[n].entry
           /\ r.id.vaultNames = getAllVaults

\* ------------------------------------------------------------------------
\* Passes on one resolver object
\* ------------------------------------------------------------------------
\* C22: the item cache and the resolved-value cache are empty at the start
\* of every pass, also of a pass run on a resolver object that has completed
\* a pass before.
C22_CachesEmptyAtPassStart ==
  pc = "validate" => itemCache = <<>> /\ resolvedSecretsCache = {}

\* ------------------------------------------------------------------------
\* Properties of parseOpUri and parseVaultEnvironment
\* ------------------------------------------------------------------------
parsed == probe.fn = "parseOpUri" /\ probe.returned

\* The segment is not empty after trimming.
hasContent(seg) == \E k \in 1..Len(seg) : ~IsWs(seg[k])

\* C23: parseOpUri succeeds exactly when the input starts with the scheme
\* prefix and the path before any '?' is made of 1, 2 or 3 segments, each
\* not empty after trimming, for both values of the session flag.
C23_ParseSucceedsExactlyWhen ==
  parsed =>
    ( probe.value.valid <=>
        /\ probe.prefix = OP_PROTOCOL_PREFIX
        /\ Len(probe.segments) \in 1..3
        /\ \A i \in 1..Len(probe.segments) : hasContent(probe.segments[i]) )

\* Three segments, one of them with white space around it, followed by a
\* query string that holds a '/', were parsed as a session reference.
C23_Witness ==
  /\ parsed
  /\ probe.value.valid
  /\ probe.isSession
  /\ Len(probe.segments) = 3
  /\ \E i \in 1..3 : IsWs(probe.segments[i][1])
  /\ \E k \in 1..Len(probe.query) : probe.query[k] = "/"

segment(i) == trim(probe.segments[i])

\* C24: one segment gives only the field; two segments give item and field
\* when the session flag is false, and vault and item when it is true; three
\* segments give vault, item and field for both values of the flag; each
\* component is the trimmed segment.
C24_SegmentsPlaced ==
  (parsed /\ probe.value.valid) =>
    << probe.value.vault, probe.value.item, probe.value.field >> =
      IF Len(probe.segments) = 1 THEN << Undefined, Undefined, segment(1) >>
      ELSE IF Len(probe.segments) = 2 /\ ~probe.isSession
      THEN << Undefined, segment(1), segment(2) >>
      ELSE IF Len(probe.segments) = 2
      THEN << segment(1), segment(2), Undefined >>
      ELSE << segment(1), segment(2), segment(3) >>

\* Two segments with white space around them were parsed as a session
\* reference.
C24_Witness ==
  /\ parsed
  /\ probe.value.valid
  /\ probe.isSession
  /\ Len(probe.segments) = 2
  /\ probe.segments[1] # segment(1)
  /\ probe.segments[2] # segment(2)
  /\ probe.value.vault = segment(1)

\* The names trimmed, without those that are empty then.
RECURSIVE normalised(_)
normalised(names) ==
  IF names = <<>> THEN <<>>
  ELSE IF hasContent(Head(names))
  THEN <<trim(Head(names))>> \o normalised(Tail(names))
  ELSE normalised(Tail(names))

\* C30: the candidate vault list is the same for a comma-separated string
\* and for the list of the same names: the names trimmed, the empty ones
\* dropped, in order, duplicates kept; an absent setting gives the empty
\* list.
C30_VaultListNormalised ==
  (probe.fn = "parseVaultEnvironment" /\ probe.returned) =>
    probe.value = IF probe.form = "absent" THEN <<>> ELSE normalised(probe.names)

\* A list with an empty name, a name with white space and a name given
\* twice was parsed.
C30_Witness ==
  /\ probe.fn = "parseVaultEnvironment"
  /\ probe.returned
  /\ probe.form = "list"
  /\ Len(probe.names) = 3
  /\ Len(probe.value) = 2
  /\ probe.value[1] = probe.value[2]
  /\ \E i \in 1..3 : hasContent(probe.names[i]) /\ probe.names[i] # trim(probe.names[i])

\* ------------------------------------------------------------------------
\* Properties of the item cache
\* ------------------------------------------------------------------------
\* Request m was answered by the fetch of a later candidate vault after the
\* fetches of the candidates before it failed.
servedByLaterVault(m) ==
  /\ reqLog[m].hitEntry = NoEntry
  /\ Len(reqLog[m].fetches) >= 2
  /\ reqLog[m].out.kind = "value"
  /\ \A i \in 1..(Len(reqLog[m].fetches) - 1) : failsAt(reqLog[m], i)

fetchedItem(m) == answerAt(reqLog[m], Len(reqLog[m].fetches))

\* Request n, later than m, names the item of m with the candidate list of
\* m and a field that item has.
C25_Case(m, n) ==
  /\ m < n
  /\ servedByLaterVault(m)
  /\ reqLog[n].id.vaultNames = reqLog[m].id.vaultNames
  /\ refersToItem(reqLog[n].id.itemName, fetchedItem(m))
  /\ findFieldValue(fetchedItem(m), reqLog[n].id) # Undefined

\* C25: after a reference was resolved through a later candidate vault, the
\* fetches for the earlier candidates having failed, a later reference of
\* the pass to the same item with the same candidate list is resolved to
\* the value from the cached item, without any fetch.
C25_LaterVaultItemServesAgain ==
  \A m, n \in 1..Len(reqLog) :
    C25_Case(m, n) =>
      /\ reqLog[n].fetches = <<>>
      /\ reqLog[n].out = Value(findFieldValue(fetchedItem(m), reqLog[n].id))

\* The cached item is of one of the candidate vaults, by id or by name, and
\* is the item named, by id or by title.
ofCandidateVault(it, r) ==
  \E i \in 1..Len(r.id.vaultNames) :
    \/ it.vault.id = r.id.vaultNames[i]
    \/ toLowerCase(it.vault.name) = toLowerCase(r.id.vaultNames[i])

isItemNamed(it, r) ==
  it.id = r.id.itemName \/ toLowerCase(it.title) = toLowerCase(r.id.itemName)

\* The cache entry serves the request: an item of a candidate vault that is
\* the item named, or the failure of a fetch of the item from a candidate
\* vault.
hitsItem(e, r) == ~isErrorEntry(e) /\ ofCandidateVault(e, r) /\ isItemNamed(e, r)

hitsError(e, r) ==
  /\ isErrorEntry(e)
  /\ includes(r.id.vaultNames, e.vaultName)
  /\ e.itemName = r.id.itemName

\* When the request was made the cache held the item asked for, fetched
\* with success, and the item has no value for the specifier.
C26_Case(r) ==
  /\ \E k \in 1..Len(r.cacheBefore) : hitsItem(r.cacheBefore[k], r)
  /\ \A k \in 1..Len(r.cacheBefore) :
       /\ ~hitsError(r.cacheBefore[k], r)
       /\ hitsItem(r.cacheBefore[k], r)
          => findFieldValue(r.cacheBefore[k], r.id) = Undefined

\* C26: a request that hits a cached item in which the field matcher finds
\* no value ends with a field-not-found failure without any fetch, and the
\* cached item stays in the cache.
C26_MissingFieldInCachedItem ==
  \A r \in Requests :
    C26_Case(r) =>
      /\ r.fetches = <<>>
      /\ r.out.kind = IF failOnError THEN "throw" ELSE "undefined"
      /\ r.out.error.type = "fieldNotFoundInCachedItem"
      /\ r.out.error.field = r.id.fieldSpecifier
      /\ \A k \in 1..Len(r.cacheBefore) : itemCache[k] = r.cacheBefore[k]

\* A request found its field missing in a cached item, and a later request
\* for another field got its value from that cached item.
C26_Witness ==
  \E m, n \in 1..Len(reqLog) :
    /\ m < n
    /\ C26_Case(reqLog[m])
    /\ reqLog[n].hitEntry # NoEntry
    /\ hitsItem(reqLog[n].hitEntry, reqLog[m])
    /\ reqLog[n].out.kind = "value"

\* C27: a value served from the item cache comes from an entry whose vault
\* id or name matches a candidate vault of the request and whose id or
\* title matches the item asked for.
C27_CacheServesOnlyMatchingItem ==
  \A r \in Requests :
    (r.hitEntry # NoEntry /\ ~isErrorEntry(r.hitEntry)) =>
      ofCandidateVault(r.hitEntry, r) /\ isItemNamed(r.hitEntry, r)

\* A value was served from the cache while the cache also held, before the
\* entry that served, the same item of a vault that is no candidate.
C27_Witness ==
  \E r \in Requests :
    /\ r.hitEntry # NoEntry
    /\ r.out.kind = "value"
    /\ \E j \in 1..Len(r.cacheBefore) :
         /\ ~isErrorEntry(r.cacheBefore[j])
         /\ isItemNamed(r.cacheBefore[j], r)
         /\ ~ofCandidateVault(r.cacheBefore[j], r)

\* Nothing in the cache serves the request and the fetch fails for every
\* candidate vault.
C28_Case(r) ==
  /\ r.hitEntry = NoEntry
  /\ \A i \in 1..Len(r.id.vaultNames) : failsAt(r, i)

\* C28: when the fetches for all N candidate vaults fail, the failure names,
\* for N = 1, that vault and its error and, for N > 1, all N candidate
\* vaults in order and the error of the vault tried last.
C28_TerminalFailure ==
  \A r \in Requests :
    C28_Case(r) =>
      /\ r.out.kind = IF failOnError THEN "throw" ELSE "undefined"
      /\ r.out.error.type =
           IF Len(r.id.vaultNames) = 1 THEN "loadFailed" ELSE "loadFailedAllVaults"
      /\ r.out.error.vaults = r.id.vaultNames
      /\ r.out.error.cause = answerAt(r, Len(r.fetches)).thrown
      /\ r.fetches[Len(r.fetches)].vault = r.id.vaultNames[Len(r.id.vaultNames)]

\* The fetches for three distinct candidate vaults failed one after the
\* other.
C28_Witness ==
  \E r \in Requests :
    /\ C28_Case(r)
    /\ Len(r.id.vaultNames) = 3
    /\ distinctVaults(r.id.vaultNames)
    /\ Len(r.fetches) = 3

\* ------------------------------------------------------------------------
\* Scope resolution
\* ------------------------------------------------------------------------
\* The vault and item settings once the session reference is applied.
effectiveVault == IF sessionComplete THEN StrV(sessionParsed.vault) ELSE configuredVault

effectiveItem ==
  IF sessionComplete THEN sessionParsed.item
  ELSE IF configuredItem.t = "str" THEN configuredItem.s
  ELSE Undefined

\* The reference ref leaves the vault, the item or the field undetermined.
undetermined(ref) ==
  \/ ~ref.valid
  \/ ref.vault = Undefined /\ parseVaultEnvironment(effectiveVault) = <<>>
  \/ ref.item = Undefined /\ ~truthy(effectiveItem)
  \/ ref.field = Undefined

\* C29: the scope resolution of a reference yields none exactly when the
\* reference does not parse, or there is no candidate vault, or no item, or
\* no field; then no fetch is issued for the reference and the cache is
\* left as it is.  Otherwise one lookup is made for it.
C29_NoneExactlyWhenUndetermined ==
  [][ (AtEntry /\ ~isSessionKey(env[idx].key) /\ isDirect(env[idx].value)) =>
        IF undetermined(parseOpUri(trim(env[idx].value.s), FALSE))
        THEN reqLog' = reqLog /\ itemCache' = itemCache
        ELSE Len(reqLog') = Len(reqLog) + 1 ]_vars

\* With an item in the cache, a reference that parses and has candidate
\* vaults but no item was worked on, and no lookup was made for it.
C29_Witness ==
  /\ itemCache # <<>>
  /\ \E n \in 1..Len(entryLog) :
       /\ entryLog[n].kind = "direct"
       /\ referenceOf(entryLog[n].entry).valid
       /\ referenceOf(entryLog[n].entry).item = Undefined
       /\ ~truthy(effectiveItem)
       /\ parseVaultEnvironment(effectiveVault) # <<>>
       /\ \A r \in Requests : r.entry # entryLog[n].entry

\* ------------------------------------------------------------------------
\* An empty vault setting
\* ------------------------------------------------------------------------
\* The configuration map sets CYOP_VAULT to the empty string and the session
\* reference, if any, does not yield a vault and an item.
emptyVaultSetting ==
  /\ hasEnv
  /\ envGet(inputEnv, "CYOP_VAULT") = StrV(<<>>)
  /\ ~sessionComplete

\* The references of the value v: the reference itself, or those of its
\* placeholders.
referencesIn(v) ==
  IF isDirect(v) THEN <<parseOpUri(trim(v.s), FALSE)>>
  ELSE [k \in 1..Len(execAll(trim(v.s), 1)) |->
          parseOpUri(execAll(trim(v.s), 1)[k].opPath, FALSE)]

\* Every reference of the value parses and names no vault.
onlyPartial(v) ==
  \A k \in 1..Len(referencesIn(v)) :
    referencesIn(v)[k].valid /\ referencesIn(v)[k].vault = Undefined

\* C31: when the configuration map sets CYOP_VAULT to the empty string and
\* no complete session reference is set, there is no candidate vault: the
\* CYOP_VAULT of the process environment is not used, no lookup and no fetch
\* is made for a partial reference, and every partial reference fails: the
\* pass raises at it under fail-fast, and the reference stays as written
\* under the lenient policy.
C31_EmptyVaultSettingNoCandidates ==
  emptyVaultSetting =>
    /\ \A r \in Requests : isFullPath(r) /\ r.id.vaultNames = <<ownVault(r)>>
    /\ \A n \in 1..Len(entryLog) :
         onlyPartial(inputEnv[entryLog[n].entry].value) =>
           /\ entryLog[n].resolved = 0
           /\ IF failOnError
              THEN /\ pc = "raised"
                   /\ n = Len(entryLog)
                   /\ raised.type = IF entryLog[n].kind = "direct"
                                    THEN "cannotResolveEnvVar"
                                    ELSE "cannotResolvePlaceholder"
              ELSE env[entryLog[n].entry].value =
                     IF entryLog[n].kind = "direct"
                     THEN inputEnv[entryLog[n].entry].value
                     ELSE StrV(trim(inputEnv[entryLog[n].entry].value.s))

\* Under an empty CYOP_VAULT of the configuration map and a CYOP_VAULT of the
\* process environment that holds the item, a partial reference and then a
\* full-path reference were worked on under the lenient policy: the first
\* failed, the second was fetched.
C31_Witness ==
  /\ emptyVaultSetting
  /\ procEnv["CYOP_VAULT"] = StrV(S_C)
  /\ ~failOnError
  /\ Len(entryLog) = 2
  /\ entryLog[1].kind = "direct"
  /\ onlyPartial(inputEnv[entryLog[1].entry].value)
  /\ referencesIn(inputEnv[entryLog[1].entry].value)[1].item # Undefined
  /\ entryLog[1].resolved = 0
  /\ \E r \in Requests : r.entry = entryLog[2].entry /\ r.fetches # <<>>

\* ------------------------------------------------------------------------
\* A vault listing that fails
\* ------------------------------------------------------------------------
\* No vault is configured and the listing of the vaults fails or gives no
\* usable vault.
discoveryFails == noVaultConfigured /\ getAllVaults = <<>>

\* Entry n of the log failed as the policy has it: the pass raised at it
\* under fail-fast; under the lenient policy its references are in the map
\* as written.
failedByPolicy(n) ==
  /\ entryLog[n].resolved = 0
  /\ IF failOnError
     THEN pc = "raised" /\ n = Len(entryLog)
     ELSE env[entryLog[n].entry].value =
            IF entryLog[n].kind = "direct"
            THEN inputEnv[entryLog[n].entry].value
            ELSE StrV(trim(inputEnv[entryLog[n].entry].value.s))

resolvedValue(path) ==
  IF rcHas(resolvedSecretsCache, path) THEN rcGet(resolvedSecretsCache, path)
  ELSE Undefined

\* The string s from position p on with, left to right, each placeholder
\* whose path resolved replaced by the value, copied as it is, and every
\* other placeholder and all other text as written.
RECURSIVE spliced(_, _)
splicedAt(s, p, m) ==
  IF ~m.ok THEN <<s[p]>> \o spliced(s, p + 1)
  ELSE (IF resolvedValue(m.opPath) # Undefined THEN resolvedValue(m.opPath)
        ELSE m.placeholder)
       \o spliced(s, m.last + 1)

spliced(s, p) == IF p > Len(s) THEN <<>> ELSE splicedAt(s, p, matchAt(s, p))

\* The placeholders of entry e of the configuration map, as written.
placeholdersOf(e) == execAll(trim(inputEnv[e].value.s), 1)

\* C33: under the lenient policy the substitution over a string with several
\* placeholders works through all of them, left to right: a failure does not
\* end it, each placeholder that resolves is replaced by its value and each
\* placeholder that fails stays in the string as written.
C33_LenientSubstitutionGoesOn ==
  ~failOnError =>
    \A n \in 1..Len(entryLog) :
      entryLog[n].kind = "template" =>
        /\ \A k \in 1..Len(placeholdersOf(entryLog[n].entry)) :
             rcHas(resolvedSecretsCache, placeholdersOf(entryLog[n].entry)[k].opPath)
        /\ env[entryLog[n].entry].value =
             StrV(spliced(trim(inputEnv[entryLog[n].entry].value.s), 1))

\* The substitution over the string of entry n of the log returned.
substitutionReturned(n) ==
  /\ entryLog[n].kind = "template"
  /\ n < Len(entryLog) \/ pc # "raised"

\* C34: the string a substitution returns is the input string with each
\* occurrence of a placeholder that resolved replaced by the resolved value,
\* copied as it is whatever the value holds (a '$', text that reads like a
\* placeholder); a later replacement does not touch the text an earlier one
\* put in.
C34_ValuesInsertedVerbatim ==
  \A n \in 1..Len(entryLog) :
    substitutionReturned(n) =>
      env[entryLog[n].entry].value.s =
        spliced(trim(inputEnv[entryLog[n].entry].value.s), 1)

\* ------------------------------------------------------------------------
\* Entries the pass leaves alone
\* ------------------------------------------------------------------------
\* C35: the entries named C8Y_SESSION and CYOP_SESSION are never resolved:
\* they hold their input value, also one that starts with the prefix, and
\* the pass makes no lookup and no fetch for them.
C35_SessionEntriesNotResolved ==
  \A i \in 1..Len(env) :
    env[i].key \in {"C8Y_SESSION", "CYOP_SESSION"} =>
      /\ env[i].value = inputEnv[i].value
      /\ \A r \in Requests : r.entry # i
      /\ \A n \in 1..Len(entryLog) : entryLog[n].entry # i

\* A pass over a map that holds both session entries, each a reference, ran
\* to its end and fetched for another entry.
C35_Witness ==
  /\ outcome = "completed"
  /\ \E i, j \in 1..Len(env) :
       /\ env[i].key = "C8Y_SESSION" /\ isDirect(inputEnv[i].value)
       /\ env[j].key = "CYOP_SESSION" /\ isDirect(inputEnv[j].value)
  /\ \E r \in Requests : r.fetches # <<>> /\ r.out.kind = "value"

\* C36: an entry whose value is not a string, or is a string that neither
\* starts, once trimmed, with the prefix nor holds a placeholder, has the
\* same value in the map the pass returns, and the pass makes no lookup and
\* no fetch for it.
C36_PlainEntriesUntouched ==
  \A i \in 1..Len(env) :
    ~isReference(inputEnv[i].value) =>
      /\ env[i].value = inputEnv[i].value
      /\ \A r \in Requests : r.entry # i
      /\ \A n \in 1..Len(entryLog) : entryLog[n].entry # i

\* A pass ran to its end over a map with a list, a number, and a string that
\* has blanks around it and holds the prefix and an opening brace without
\* being a reference, after a fetch for an entry before them.
C36_Witness ==
  /\ outcome = "completed"
  /\ reqLog # <<>>
  /\ reqLog[1].fetches # <<>>
  /\ \E i \in 1..Len(env) : inputEnv[i].value.t = "arr"
  /\ \E i \in 1..Len(env) :
       /\ i > reqLog[1].entry
       /\ inputEnv[i].value = StrV(<<" ", "t", "{{", "op://", "f">>)

\* ------------------------------------------------------------------------
\* The section.field lookup
\* ------------------------------------------------------------------------
\* The last separator of a specifier that holds one, and the section part and
\* the field part it cuts the specifier into.
lastSeparator(spec) ==
  CHOOSE k \in 1..Len(spec) :
    /\ spec[k] = SECTION_FIELD_SEPARATOR
    /\ \A j \in (k + 1)..Len(spec) : spec[j] # SECTION_FIELD_SEPARATOR

sectionPart(spec) == SubSeq(spec, 1, lastSeparator(spec) - 1)
fieldPart(spec)   == SubSeq(spec, lastSeparator(spec) + 1, Len(spec))

\* The request reached the section.field lookup: its specifier holds the
\* separator and no field of the item has it, whole, as label or id.
sectionLookedUp(r) ==
  /\ usesItem(r)
  /\ isDotted(specifierOf(r))
  /\ ~directlyMatched(usedItem(r), specifierOf(r))

\* C37: the section.field lookup cuts the specifier at its last separator:
\* a value it returns is that of a field named by the part after it, in a
\* section labelled or identified by the part before it (for a.b.c the field
\* c of the section a.b, not the field b.c of the section a), such a field is
\* found when the item has one, and a specifier whose section part or field
\* part is empty is not looked up as section.field.
C37_CutAtLastSeparator ==
  \A r \in Requests :
    sectionLookedUp(r) =>
      /\ r.out.kind = "value" =>
           /\ sectionPart(specifierOf(r)) # <<>>
           /\ fieldPart(specifierOf(r)) # <<>>
           /\ \E i \in 1..Len(usedItem(r).fields) :
                /\ inSection(usedItem(r).fields[i],
                             sectionPart(specifierOf(r)), fieldPart(specifierOf(r)))
                /\ outValue(r) = usedItem(r).fields[i].value
      /\ ( /\ sectionPart(specifierOf(r)) # <<>>
           /\ \E i \in 1..Len(usedItem(r).fields) :
                inSection(usedItem(r).fields[i],
                          sectionPart(specifierOf(r)), fieldPart(specifierOf(r))) )
         => r.out.kind = "value"

\* ------------------------------------------------------------------------
\* The URL aliases
\* ------------------------------------------------------------------------
\* Two requests resolve an alias of the URL, written in whatever case,
\* against the same item under the same target URL.
sameUrlLookup(r1, r2) ==
  /\ usesItem(r1)
  /\ usesItem(r2)
  /\ usedItem(r1) = usedItem(r2)
  /\ r1.id.target_url = r2.id.target_url
  /\ specifierOf(r1) = specifierOf(r2)
  /\ specifierOf(r1) \in SPECIAL_URL_FIELDS

\* C38: the URL aliases are recognised in any case: against every item, one
\* without fields included, the specifier URL gives what url gives, for the
\* target URL and for the item's urls alike.
C38_UrlAliasAnyCase ==
  \A r1, r2 \in Requests : sameUrlLookup(r1, r2) => outValue(r1) = outValue(r2)

\* ------------------------------------------------------------------------
\* The caller's configuration
\* ------------------------------------------------------------------------
\* C39: a pass does not write to the configuration the caller passed in:
\* after a pass, whether it ran to its end, logged failures or raised part
\* way, every entry of the env map of that configuration holds its input
\* value.  (env is the env object of the caller's configuration: the copies
\* of lines 79 and 595 are shallow.)
C39_CallerInputNotWritten ==
  pc \in {"returned", "raised"} =>
    \A i \in 1..Len(env) : env[i].value = inputEnv[i].value

\* ------------------------------------------------------------------------
\* The session reference
\* ------------------------------------------------------------------------
\* The session reference was applied to a vault setting and an item setting.
sessionApplied == probe.fn = "withSession" /\ probe.returned

\* C40: what parse gives for a session reference holds a vault exactly when
\* it holds an item, so a session reference never gives the one without the
\* other, and applying it either replaces both the vault setting and the
\* item setting, by its first and second segment, or changes neither.
C40_SessionVaultIffItem ==
  /\ (parsed /\ probe.isSession /\ probe.value.valid) =>
       (probe.value.vault # Undefined <=> probe.value.item # Undefined)
  /\ sessionApplied =>
       \/ /\ probe.value.vaultEnv = probe.vaultEnv0
          /\ probe.value.itemEnv = probe.itemEnv0
       \/ /\ Len(probe.segments) >= 2
          /\ probe.value.vaultEnv = StrV(trim(probe.segments[1]))
          /\ probe.value.itemEnv = StrV(trim(probe.segments[2]))

\* A session reference of one segment, which parses, was applied where
\* no vault and no item were set, and neither is set after it.
C40_Witness ==
  /\ sessionApplied
  /\ probe.prefix = OP_PROTOCOL_PREFIX
  /\ Len(probe.segments) = 1
  /\ hasContent(probe.segments[1])
  /\ probe.vaultEnv0 = UndefV
  /\ probe.itemEnv0 = StrV(<<>>)
  /\ probe.value.vaultEnv = UndefV
  /\ probe.value.itemEnv = StrV(<<>>)

====
